---- MODULE Spec2Model ----
(***************************************************************************)
(* LexAgents: the job manager (api/jobs.py), the runner it wraps           *)
(* (api/processor.py), the staged pipeline (pipeline_optimizado.py) and    *)
(* the convergence engine (agents/convergencia.py), the clients of the     *)
(* BOE and EUR-Lex (modules/) and the inference agent.                     *)
(*                                                                         *)
(* Nine specifications share the variables:                                 *)
(*   Spec      the job manager with several jobs; each pipeline thread is  *)
(*             one step from start to end;                                 *)
(*   SpecRun   one job run by TemaProcessor.process: the pipeline thread   *)
(*             walks the staged reports of procesar_tema and hands them    *)
(*             to the event loop through a FIFO, with a clock;             *)
(*   SpecConv  SistemaConvergencia.ejecutar, round by round;               *)
(*   SpecPipe  the data flow of PipelineOptimizado.procesar_tema, from the *)
(*             convergence's list to the exported references;              *)
(*   SpecCache the pool threads' lookups in the BOE and EUR-Lex and the    *)
(*             caches in front of them;                                    *)
(*   SpecInfer InferenceAgent.inferir_normas;                              *)
(*   SpecCelex the CELEX number synthesised for a European citation;       *)
(*   SpecBusqueda BOESearcher.buscar_ley, strategy by strategy;            *)
(*   SpecArticulo BOEArticleFetcher.obtener_articulo behind its lru_cache. *)
(***************************************************************************)
EXTENDS Integers, Sequences, FiniteSets, TLC

VARIABLES jobs, running_tasks, tasks, hilo, cola, reloj, next_id, conv, pipe, registro,
          inferencia, eurlex, busqueda, fetcher

vars ==
    <<jobs, running_tasks, tasks, hilo, cola, reloj, next_id, conv, pipe, registro,
      inferencia, eurlex, busqueda, fetcher>>

(***************************************************************************)
(* Bounds and program constants.                                           *)
(***************************************************************************)
MaxJobs == 3

MaxCola == 4

TickSeconds == 150

MAX_CONCURRENT_JOBS == 2

JOB_TIMEOUT_SECONDS == 300

JobIds == 1..MaxJobs

RunJobIds == {1}

None == "None"

(***************************************************************************)
(* api/models.py: JobStatus and Job.                                       *)
(***************************************************************************)
PENDING == "pending"

RUNNING == "running"

COMPLETED == "completed"

FAILED == "failed"

CANCELLED == "cancelled"

JobStatus == {PENDING, RUNNING, COMPLETED, FAILED, CANCELLED}

\* Job(...) as create_job builds it.  The timestamps are left out: created_at
\* orders the jobs as their ids do, started_at is the zero of reloj.  The
\* fields mensaje_tecnico, agentes_activos and stats_parciales are written
\* only by update_phase, together with and under the guard of fase_actual.
NewJob ==
    [status |-> PENDING, progress |-> 0, mensaje |-> "Job creado, esperando ejecucion",
     fase_actual |-> None, resultado |-> None, error |-> None]

Dict(d, k, v) == [x \in DOMAIN d \cup {k} |-> IF x = k THEN v ELSE d[x]]

Del(d, K) == [x \in DOMAIN d \ K |-> d[x]]

Min(a, b) == IF a < b THEN a ELSE b

Max(a, b) == IF a > b THEN a ELSE b

Clamp(p) == Min(100, Max(0, p))

(***************************************************************************)
(* JobManager.update_progress and JobManager.update_phase, as functions    *)
(* of the job table.                                                       *)
(***************************************************************************)
update_progress(js, j, progress, mensaje) ==
    IF j \in DOMAIN js
    THEN [js EXCEPT ![j].progress = Clamp(progress),
                    ![j].mensaje = IF mensaje # None THEN mensaje ELSE @]
    ELSE js

update_phase(js, j, fase_actual, progress) ==
    IF j \in DOMAIN js
    THEN [js EXCEPT ![j].fase_actual = IF fase_actual # None THEN fase_actual ELSE @,
                    ![j].progress = IF progress # None THEN Clamp(progress) ELSE @]
    ELSE js

\* progress_callback's choice of the phase label from the percentage.
FaseDe(percent) ==
    IF percent < 20 THEN "Fase 1"
    ELSE IF percent < 35 THEN "Fase 2"
    ELSE IF percent < 45 THEN "Fase 3"
    ELSE IF percent < 55 THEN "Fase 4"
    ELSE IF percent < 65 THEN "Fase 5"
    ELSE IF percent < 75 THEN "Fase 6"
    ELSE IF percent < 85 THEN "Fase 7"
    ELSE IF percent < 95 THEN "Fase 8"
    ELSE "Fase 9"

(***************************************************************************)
(* JobManager.create_job: a fresh uuid, the job registered as pending.     *)
(***************************************************************************)
create_job(cap) ==
    /\ next_id <= cap
    /\ jobs' = Dict(jobs, next_id, NewJob)
    /\ next_id' = next_id + 1
    /\ UNCHANGED <<running_tasks, tasks, hilo, cola, reloj, conv, pipe, registro, inferencia, eurlex, busqueda, fetcher>>

(***************************************************************************)
(* JobManager.start_job.  An unknown job or a job that is not pending      *)
(* raises ValueError before any assignment (no step); otherwise the job    *)
(* is running and the task of _run_job is created.  Nothing bounds the     *)
(* number of running jobs.                                                 *)
(***************************************************************************)
StartGuard_any_status(j) == j \in DOMAIN jobs

StartGuard(j) == j \in DOMAIN jobs /\ jobs[j].status = PENDING

start_job(j) ==
    /\ StartGuard(j)
    /\ jobs' = [jobs EXCEPT ![j].status = RUNNING,
                            ![j].mensaje = "Procesamiento iniciado",
                            ![j].progress = 0]
    /\ tasks' = [tasks EXCEPT ![j] = "scheduled"]
    /\ running_tasks' = running_tasks \cup {j}
    /\ reloj' = [reloj EXCEPT ![j] = 0]
    /\ UNCHANGED <<hilo, cola, next_id, conv, pipe, registro, inferencia, eurlex, busqueda, fetcher>>

(***************************************************************************)
(* The first step of the task: _run_job enters TemaProcessor.process,      *)
(* which reports 5, resolves the JSON path (FileNotFoundError or           *)
(* ValueError fails the job at once), reports 10 and hands                 *)
(* _run_pipeline_sync to the executor.  No await before run_in_executor    *)
(* suspends (the lock is never held across an await), so this is one step. *)
(***************************************************************************)
MarkFailed(js, j) ==
    [js EXCEPT ![j].status = FAILED, ![j].error = "error", ![j].mensaje = "Error"]

MarkCompleted(js, j) ==
    [js EXCEPT ![j].status = COMPLETED, ![j].resultado = "resultado",
               ![j].progress = 100,
               ![j].mensaje = "Procesamiento completado exitosamente"]

task_start(j) ==
    /\ tasks[j] = "scheduled"
    /\ \E json_ok \in BOOLEAN :
         IF json_ok
         THEN /\ jobs' = update_progress(
                            update_progress(jobs, j, 5, "Inicializando pipeline..."),
                            j, 10, "JSON preparado, iniciando extraccion...")
              /\ tasks' = [tasks EXCEPT ![j] = "awaiting"]
              /\ hilo' = [hilo EXCEPT ![j] = [estado |-> "encolado", etapa |-> 0]]
              /\ UNCHANGED running_tasks
         ELSE /\ jobs' = MarkFailed(update_progress(jobs, j, 5, "Inicializando pipeline..."), j)
              /\ tasks' = [tasks EXCEPT ![j] = "finished"]
              /\ running_tasks' = running_tasks \ {j}
              /\ UNCHANGED hilo
    /\ UNCHANGED <<cola, reloj, next_id, conv, pipe, registro, inferencia, eurlex, busqueda, fetcher>>

(***************************************************************************)
(* _run_job after the await: the executor's future is done and every       *)
(* callback the thread posted before it is delivered (the loop's ready     *)
(* queue is FIFO).  A result marks the job completed, an exception failed; *)
(* finally the task leaves running_tasks.                                  *)
(***************************************************************************)
run_job_finish(j) ==
    /\ tasks[j] = "awaiting"
    /\ hilo[j].estado \in {"returned", "raised"}
    /\ cola[j] = <<>>
    /\ jobs' = IF hilo[j].estado = "returned" THEN MarkCompleted(jobs, j)
               ELSE MarkFailed(jobs, j)
    /\ tasks' = [tasks EXCEPT ![j] = "finished"]
    /\ running_tasks' = running_tasks \ {j}
    /\ UNCHANGED <<hilo, cola, reloj, next_id, conv, pipe, registro, inferencia, eurlex, busqueda, fetcher>>

(***************************************************************************)
(* JobManager.cancel_job.  Only a pending or running job is cancelled     *)
(* (otherwise it returns False before any assignment: no step).            *)
(* task.cancel() raises CancelledError in the task at its await; it is a   *)
(* BaseException, which `except Exception` of _run_job does not catch, so  *)
(* the task ends without touching the job.  The cancellation reaches the   *)
(* executor's future only while its work is still queued: a pipeline       *)
(* thread that has started runs on.                                        *)
(***************************************************************************)
CancelGuard_any_status(j) == j \in DOMAIN jobs

CancelGuard(j) == j \in DOMAIN jobs /\ jobs[j].status \in {PENDING, RUNNING}

cancel_job(j) ==
    /\ CancelGuard(j)
    /\ jobs' = [jobs EXCEPT ![j].status = CANCELLED,
                            ![j].mensaje = "Job cancelado por el usuario"]
    /\ running_tasks' = running_tasks \ {j}
    /\ tasks' = [tasks EXCEPT ![j] = IF j \in running_tasks THEN "cancelled" ELSE @]
    /\ hilo' = [hilo EXCEPT ![j] = IF j \in running_tasks /\ @.estado = "encolado"
                                   THEN [@ EXCEPT !.estado = "cancelado"] ELSE @]
    /\ UNCHANGED <<cola, reloj, next_id, conv, pipe, registro, inferencia, eurlex, busqueda, fetcher>>

(***************************************************************************)
(* JobManager.cleanup_old_jobs(max_age_hours): deletes the completed,      *)
(* failed and cancelled jobs older than max_age_hours.  created_at grows   *)
(* with the id, so the jobs older than a given age are those up to some    *)
(* id.                                                                     *)
(***************************************************************************)
Cleanable_any_status(j) == jobs[j].status \in JobStatus

Cleanable(j) == jobs[j].status \in {COMPLETED, FAILED, CANCELLED}

cleanup_old_jobs(oldest) ==
    /\ \E j \in DOMAIN jobs : Cleanable(j) /\ j <= oldest
    /\ jobs' = Del(jobs, {j \in DOMAIN jobs : Cleanable(j) /\ j <= oldest})
    /\ UNCHANGED <<running_tasks, tasks, hilo, cola, reloj, next_id, conv, pipe, registro, inferencia, eurlex, busqueda, fetcher>>

(***************************************************************************)
(* The pipeline thread (_run_pipeline_sync in the executor).  It starts    *)
(* once a worker of the executor takes it.                                 *)
(***************************************************************************)
hilo_arranca(j) ==
    /\ hilo[j].estado = "encolado"
    /\ hilo' = [hilo EXCEPT ![j].estado = "corriendo"]
    /\ UNCHANGED <<jobs, running_tasks, tasks, cola, reloj, next_id, conv, pipe, registro, inferencia, eurlex, busqueda, fetcher>>

\* progress_callback: a report is update_progress followed by update_phase
\* with the phase label of the percentage.
progress_callback(js, j, percent, message) ==
    update_phase(update_progress(js, j, percent, message), j, FaseDe(percent), None)

(***************************************************************************)
(* The thread in Spec, taken as one step from its start to its end: it     *)
(* either raises (here before its first report) or returns, and then its   *)
(* last report, 100, is the one that stays in the job.                     *)
(***************************************************************************)
hilo_termina(j) ==
    /\ hilo[j].estado = "corriendo"
    /\ \E fin \in {"returned", "raised"} :
         /\ hilo' = [hilo EXCEPT ![j].estado = fin]
         /\ jobs' = IF fin = "returned"
                    THEN progress_callback(jobs, j, 100, "Procesamiento completado")
                    ELSE jobs
    /\ UNCHANGED <<running_tasks, tasks, cola, reloj, next_id, conv, pipe, registro, inferencia, eurlex, busqueda, fetcher>>

(***************************************************************************)
(* The thread in SpecRun, stage by stage.  Etapas lists the reports of     *)
(* procesar_tema in order: the percentage and message of _report_progress, *)
(* whether the stage is behind an option of the request (use_context_agent,*)
(* use_inference_agent, exportar) and whether the stage calls the BOE      *)
(* (validation, export).                                                   *)
(***************************************************************************)
Etapa(pct, mensaje, opcional, boe) ==
    [pct |-> pct, mensaje |-> mensaje, opcional |-> opcional, boe |-> boe]

Etapas ==
    << Etapa(15, "Extrayendo texto del HTML...", FALSE, FALSE),
       Etapa(30, "Ejecutando convergencia iterativa...", FALSE, FALSE),
       Etapa(35, "Resolviendo referencias incompletas con contexto...", TRUE, FALSE),
       Etapa(40, "Resolviendo titulos completos...", FALSE, FALSE),
       Etapa(50, "Normalizando referencias...", FALSE, FALSE),
       Etapa(65, "Validando contra BOE oficial...", FALSE, TRUE),
       Etapa(70, "Infiriendo normas desde conceptos...", TRUE, FALSE),
       Etapa(75, "Analizando comparativa...", FALSE, FALSE),
       Etapa(85, "Ejecutando auditoria de calidad...", FALSE, FALSE),
       Etapa(95, "Exportando resultados...", TRUE, TRUE),
       Etapa(100, "Procesamiento completado", FALSE, FALSE) >>

\* The stages that may follow stage e: the next one, or a later one when
\* every stage in between is optional (its option is off).
Siguientes(e) ==
    {k \in (e + 1)..Len(Etapas) : \A m \in (e + 1)..(k - 1) : Etapas[m].opcional}

\* What progress_callback hands to the loop for one report: the two
\* coroutines, in this order.
Mensajes(e) ==
    << [op |-> "update_progress", pct |-> Etapas[e].pct, mensaje |-> Etapas[e].mensaje],
       [op |-> "update_phase", pct |-> Etapas[e].pct, mensaje |-> None] >>

(***************************************************************************)
(* The thread enters its next stage and reports it.  The pipeline has no   *)
(* check of the job's status or of cancellation anywhere, so the guard     *)
(* reads neither.  (The model lets the thread report only when the loop    *)
(* has room in its queue: MaxCola bounds the backlog.)                     *)
(***************************************************************************)
hilo_etapa(j) ==
    /\ hilo[j].estado = "corriendo"
    /\ Len(cola[j]) + 2 <= MaxCola
    /\ \E k \in Siguientes(hilo[j].etapa) :
         /\ hilo' = [hilo EXCEPT ![j].etapa = k]
         /\ cola' = [cola EXCEPT ![j] = @ \o Mensajes(k)]
    /\ UNCHANGED <<jobs, running_tasks, tasks, reloj, next_id, conv, pipe, registro, inferencia, eurlex, busqueda, fetcher>>

\* procesar_tema returns after its last report.
hilo_retorna(j) ==
    /\ hilo[j].estado = "corriendo"
    /\ hilo[j].etapa = Len(Etapas)
    /\ hilo' = [hilo EXCEPT ![j].estado = "returned"]
    /\ UNCHANGED <<jobs, running_tasks, tasks, cola, reloj, next_id, conv, pipe, registro, inferencia, eurlex, busqueda, fetcher>>

\* A stage raises: the exception leaves procesar_tema and the thread.
hilo_falla(j) ==
    /\ hilo[j].estado = "corriendo"
    /\ hilo[j].etapa < Len(Etapas)
    /\ hilo' = [hilo EXCEPT ![j].estado = "raised"]
    /\ UNCHANGED <<jobs, running_tasks, tasks, cola, reloj, next_id, conv, pipe, registro, inferencia, eurlex, busqueda, fetcher>>

(***************************************************************************)
(* The loop runs the coroutine at the head of the queue:                   *)
(* JobManager.update_progress or JobManager.update_phase.  Neither reads   *)
(* the job's status.                                                       *)
(***************************************************************************)
Entrega(js, j, m) ==
    IF m.op = "update_progress"
    THEN update_progress(js, j, m.pct, m.mensaje)
    ELSE update_phase(js, j, FaseDe(m.pct), None)

\* The loop running the newest coroutine first.
entrega_invertida(j) ==
    /\ cola[j] # <<>>
    /\ jobs' = Entrega(jobs, j, cola[j][Len(cola[j])])
    /\ cola' = [cola EXCEPT ![j] = SubSeq(@, 1, Len(@) - 1)]
    /\ UNCHANGED <<running_tasks, tasks, hilo, reloj, next_id, conv, pipe, registro, inferencia, eurlex, busqueda, fetcher>>

entrega(j) ==
    /\ cola[j] # <<>>
    /\ jobs' = Entrega(jobs, j, Head(cola[j]))
    /\ cola' = [cola EXCEPT ![j] = Tail(@)]
    /\ UNCHANGED <<running_tasks, tasks, hilo, reloj, next_id, conv, pipe, registro, inferencia, eurlex, busqueda, fetcher>>

(***************************************************************************)
(* Time passes for a running job (reloj is the time since started_at).     *)
(* No handler reads the clock or JOB_TIMEOUT_SECONDS; the model stops the  *)
(* clock once it is past the limit.                                        *)
(***************************************************************************)
Tick(j) ==
    /\ j \in DOMAIN jobs
    /\ jobs[j].status = RUNNING
    /\ reloj[j] <= JOB_TIMEOUT_SECONDS
    /\ reloj' = [reloj EXCEPT ![j] = @ + TickSeconds]
    /\ UNCHANGED <<jobs, running_tasks, tasks, hilo, cola, next_id, conv, pipe, registro, inferencia, eurlex, busqueda, fetcher>>

(***************************************************************************)
(* Spec: the job manager.                                                  *)
(***************************************************************************)
ConvIdle == [estado |-> "idle"]

\* No InferenceAgent yet.
InferenciaIdle == [estado |-> "idle"]

EurlexIdle == [estado |-> "idle"]

BusquedaIdle == [pc |-> "idle"]

\* The singleton BOEArticleFetcher: nothing fetched, nothing cached.
FetcherInicial == [cache |-> <<>>, objetos |-> <<>>, retorno |-> <<>>]

\* The clients of the remote registries before any lookup: MaxPool pool
\* threads at rest, the functools.lru_cache of each decorated function
\* empty, BOESearcher.cache and its file boe_ids_cache.json empty, no law in
\* BOEDownloader's cache directory, and no file lock held.
MaxPool == 2

Workers == 1..MaxPool

FuncionesLru == {"obtener_indice", "verificar_celex_existe", "obtener_articulo"}

BoeInit ==
    [workers |-> [w \in Workers |-> [pc |-> "idle"]],
     lru |-> [f \in FuncionesLru |-> <<>>],
     cache |-> <<>>,
     cache_file |-> <<>>,
     boe_html |-> <<>>,
     locks |-> [w \in Workers |-> {}]]

PipeIdle == [etapa |-> "idle", pendientes |-> {}]

InitJobs ==
    /\ jobs = <<>>
    /\ running_tasks = {}
    /\ tasks = [j \in JobIds |-> "none"]
    /\ hilo = [j \in JobIds |-> [estado |-> "none", etapa |-> 0]]
    /\ cola = [j \in JobIds |-> <<>>]
    /\ reloj = [j \in JobIds |-> 0]
    /\ next_id = 1

Init ==
    /\ InitJobs
    /\ conv = ConvIdle
    /\ pipe = PipeIdle
    /\ registro = BoeInit
    /\ inferencia = InferenciaIdle
    /\ eurlex = EurlexIdle
    /\ busqueda = BusquedaIdle
    /\ fetcher = FetcherInicial

Next ==
    \/ create_job(MaxJobs)
    \/ \E j \in JobIds : start_job(j)
    \/ \E j \in JobIds : task_start(j)
    \/ \E j \in JobIds : run_job_finish(j)
    \/ \E j \in JobIds : cancel_job(j)
    \/ \E oldest \in JobIds : cleanup_old_jobs(oldest)
    \/ \E j \in JobIds : hilo_arranca(j)
    \/ \E j \in JobIds : hilo_termina(j)

Spec == Init /\ [][Next]_vars

(***************************************************************************)
(* SpecRun: one job, its task, its pipeline thread and the clock.          *)
(***************************************************************************)
NextRun ==
    \/ create_job(Cardinality(RunJobIds))
    \/ \E j \in RunJobIds : start_job(j)
    \/ \E j \in RunJobIds : task_start(j)
    \/ \E j \in RunJobIds : run_job_finish(j)
    \/ \E j \in RunJobIds : cancel_job(j)
    \/ \E oldest \in RunJobIds : cleanup_old_jobs(oldest)
    \/ \E j \in RunJobIds : hilo_arranca(j)
    \/ \E j \in RunJobIds : hilo_etapa(j)
    \/ \E j \in RunJobIds : hilo_retorna(j)
    \/ \E j \in RunJobIds : hilo_falla(j)
    \/ \E j \in RunJobIds : entrega(j)
    \/ \E j \in RunJobIds : Tick(j)

SpecRun == Init /\ [][NextRun]_vars

(***************************************************************************)
(* agents/convergencia.py: SistemaConvergencia.                            *)
(*                                                                         *)
(* A reference is the dict an extractor returns; the fields the engine     *)
(* reads are texto_completo, ley and confianza.                            *)
(***************************************************************************)
MaxRondas == 3

Ref(texto_completo, ley, confianza) ==
    [texto_completo |-> texto_completo, ley |-> ley, confianza |-> confianza]

RefArt24 == Ref("Art. 24 CE", "CE", 100)

RefArt24b == Ref(" art. 24 ce", "ce", 95)

\* Another article of the same law.
RefArt103 == Ref("Art. 103 CE", "CE", 100)

RefLey39 == Ref("Ley 39/2015", "Ley 39/2015", 60)

RefArt14 == Ref("articulo 14", "", 80)

RefCC == Ref("Codigo Civil", "CC", 90)

\* s.lower().strip() on the strings of the references above.
LowerStrip(s) ==
    CASE s = "Art. 24 CE" -> "art. 24 ce"
      [] s = " art. 24 ce" -> "art. 24 ce"
      [] s = "Art. 103 CE" -> "art. 103 ce"
      [] s = "CE" -> "ce"
      [] s = "Ley 39/2015" -> "ley 39/2015"
      [] s = "Codigo Civil" -> "codigo civil"
      [] s = "CC" -> "cc"
      [] OTHER -> s

Texto(ref) == LowerStrip(ref.texto_completo)

LeyDe(ref) == LowerStrip(ref.ley)

\* What the LLM answers to an extractor: a parsed list of references, or
\* the call (or the parse) raises.
RespuestaLLM(ok, referencias) == [ok |-> ok, referencias |-> referencias]

\* The answers each agent may get (A is the conservative one, B the
\* aggressive one, C the independent one).
RespuestasLLM(agente) ==
    {RespuestaLLM(FALSE, <<>>), RespuestaLLM(TRUE, <<>>)} \cup
    ( CASE agente = "a" -> {RespuestaLLM(TRUE, <<RefArt24>>), RespuestaLLM(TRUE, <<RefCC>>),
                             RespuestaLLM(TRUE, <<RefArt24, RefArt103>>)}
        [] agente = "b" -> {RespuestaLLM(TRUE, <<RefArt24b, RefLey39>>)}
        [] agente = "c" -> {RespuestaLLM(TRUE, <<RefArt14>>)} )

\* What the LLM answers to the deduplication prompt: the call raises, the
\* answer does not parse, or it parses to a list of indices.
RespuestaIA(tipo, indices) == [tipo |-> tipo, indices |-> indices]

RespuestasIA ==
    { RespuestaIA("excepcion", <<>>),
      RespuestaIA("no_parsea", <<>>),
      RespuestaIA("indices", <<1, 0, 7>>) }

Umbrales == {70}

Agentes == {"a", "b", "c"}

\* The loop shared by ExtractorAgent._filtrar_duplicados and
\* _deduplicar_simple: keep a reference when its text is not empty and was
\* not seen before.
RECURSIVE FiltrarVistos(_, _)
FiltrarVistos(refs, vistos) ==
    IF refs = <<>> THEN <<>>
    ELSE LET texto == Texto(Head(refs))
         IN  IF texto # "" /\ texto \notin vistos
             THEN <<Head(refs)>> \o FiltrarVistos(Tail(refs), vistos \cup {texto})
             ELSE FiltrarVistos(Tail(refs), vistos)

filtrar_duplicados(referencias_nuevas, referencias_previas) ==
    FiltrarVistos(referencias_nuevas,
                  {Texto(referencias_previas[i]) : i \in DOMAIN referencias_previas} \ {""})

\* ExtractorAgentA/B/C.procesar: the call to the LLM, the parse and the
\* filter are inside try/except Exception, which answers an empty list.
Resultado(estado, referencias) ==
    [estado |-> estado, referencias |-> referencias, total |-> Len(referencias)]

procesar_sin_try(respuesta, referencias_previas) ==
    IF ~respuesta.ok
    THEN Resultado("raise", <<>>)
    ELSE Resultado("ok", IF referencias_previas # <<>>
                         THEN filtrar_duplicados(respuesta.referencias, referencias_previas)
                         ELSE respuesta.referencias)

procesar(respuesta, referencias_previas) ==
    IF ~respuesta.ok
    THEN Resultado("error", <<>>)
    ELSE Resultado("ok", IF referencias_previas # <<>>
                         THEN filtrar_duplicados(respuesta.referencias, referencias_previas)
                         ELSE respuesta.referencias)

deduplicar_simple(referencias) == FiltrarVistos(referencias, {})

parsear_respuesta_deduplicacion(respuesta, total_refs) ==
    IF respuesta.tipo = "no_parsea"
    THEN [k \in 1..total_refs |-> k - 1]
    ELSE SelectSeq(respuesta.indices, LAMBDA i : 0 <= i /\ i < total_refs)

deduplicar_con_ia(referencias, respuesta) ==
    IF Len(referencias) <= 1 THEN referencias
    ELSE IF respuesta.tipo = "excepcion" THEN deduplicar_simple(referencias)
    ELSE LET indices_unicos ==
                 parsear_respuesta_deduplicacion(respuesta, Len(referencias))
         IN  [k \in 1..Len(indices_unicos) |-> referencias[indices_unicos[k] + 1]]

deduplicar_semanticamente(referencias, respuesta) ==
    IF Len(referencias) <= 1 THEN referencias
    ELSE IF Len(referencias) <= 20 THEN deduplicar_con_ia(referencias, respuesta)
    ELSE LET unicas_simples == deduplicar_simple(referencias)
         IN  IF Len(unicas_simples) > 20 THEN unicas_simples
             ELSE deduplicar_con_ia(unicas_simples, respuesta)

es_duplicado(referencia, referencias_totales) ==
    \E i \in DOMAIN referencias_totales :
        \/ Texto(referencia) # "" /\ Texto(referencia) = Texto(referencias_totales[i])
        \/ LeyDe(referencia) # "" /\ LeyDe(referencia) = LeyDe(referencias_totales[i])

\* The loop of _ejecutar_ronda that appends what is not a duplicate.
RECURSIVE Agregar(_, _)
Agregar(referencias_totales, referencias_unicas) ==
    IF referencias_unicas = <<>> THEN referencias_totales
    ELSE Agregar(IF es_duplicado(Head(referencias_unicas), referencias_totales)
                 THEN referencias_totales
                 ELSE Append(referencias_totales, Head(referencias_unicas)),
                 Tail(referencias_unicas))

filtrar_por_confianza(referencias, umbral) ==
    SelectSeq(referencias, LAMBDA ref : ref.confianza >= umbral)

Convergencia_hasta_una(referencias_nuevas) == referencias_nuevas <= 1

\* convergencia_alcanzada of a round from its count of new references.
Convergencia(referencias_nuevas) == referencias_nuevas = 0

(***************************************************************************)
(* SistemaConvergencia.ejecutar, first part: the state is reset.           *)
(* historial keeps of each round what ejecutar and the properties read;    *)
(* ultima is the last round in full: the three results, the combined list  *)
(* referencias_ronda, the deduplicated list and the accumulated list       *)
(* before the round.                                                       *)
(***************************************************************************)
SinRonda ==
    [resultados |-> [g \in Agentes |-> Resultado("ok", <<>>)],
     referencias_ronda |-> <<>>, referencias_unicas |-> <<>>, antes |-> <<>>]

ejecutar(max_rondas, umbral) ==
    /\ conv.estado \in {"idle", "fin"}
    /\ conv' = [estado |-> "rondas", max_rondas |-> max_rondas,
                umbral_confianza_minima |-> umbral,
                referencias_totales |-> <<>>, historial_rondas |-> <<>>,
                ultima |-> SinRonda, referencias |-> <<>>]
    /\ UNCHANGED <<jobs, running_tasks, tasks, hilo, cola, reloj, next_id, pipe, registro, inferencia, eurlex, busqueda, fetcher>>

\* The for loop goes on: rounds are left and the last one did not converge.
Sigue(c) ==
    /\ Len(c.historial_rondas) < c.max_rondas
    /\ IF c.historial_rondas = <<>> THEN TRUE
       ELSE ~c.historial_rondas[Len(c.historial_rondas)].convergencia_alcanzada

(***************************************************************************)
(* One round, _ejecutar_ronda: the three agents work on a copy of the      *)
(* accumulated list, future.result() re-raises what an agent raised, the   *)
(* three lists are concatenated A + B + C, deduplicated and appended.      *)
(***************************************************************************)
Ronda(c, res, respuesta_ia) ==
    LET antes == c.referencias_totales
        referencias_ronda ==
            res["a"].referencias \o res["b"].referencias \o res["c"].referencias
        referencias_unicas == deduplicar_semanticamente(referencias_ronda, respuesta_ia)
        despues == Agregar(antes, referencias_unicas)
        referencias_nuevas == Len(despues) - Len(antes)
    IN  [c EXCEPT !.referencias_totales = despues,
                  !.historial_rondas =
                      Append(@, [ronda |-> Len(@) + 1,
                                 referencias_nuevas |-> referencias_nuevas,
                                 convergencia_alcanzada |-> Convergencia(referencias_nuevas)]),
                  !.ultima = [resultados |-> res,
                              referencias_ronda |-> referencias_ronda,
                              referencias_unicas |-> referencias_unicas,
                              antes |-> antes]]

ejecutar_ronda ==
    /\ conv.estado = "rondas"
    /\ Sigue(conv)
    /\ \E ra \in RespuestasLLM("a"), rb \in RespuestasLLM("b"), rc \in RespuestasLLM("c"),
          respuesta_ia \in RespuestasIA :
         LET res == [g \in Agentes |->
                        procesar(IF g = "a" THEN ra ELSE IF g = "b" THEN rb ELSE rc,
                                 conv.referencias_totales)]
         IN  conv' = IF \E g \in Agentes : res[g].estado = "raise"
                     THEN [conv EXCEPT !.estado = "abortado"]
                     ELSE Ronda(conv, res, respuesta_ia)
    /\ UNCHANGED <<jobs, running_tasks, tasks, hilo, cola, reloj, next_id, pipe, registro, inferencia, eurlex, busqueda, fetcher>>

\* ejecutar, last part: the loop is over, the accumulated list is filtered
\* by confidence and returned.
ejecutar_fin ==
    /\ conv.estado = "rondas"
    /\ ~Sigue(conv)
    /\ conv' = [conv EXCEPT !.estado = "fin",
                            !.referencias = filtrar_por_confianza(
                                conv.referencias_totales, conv.umbral_confianza_minima)]
    /\ UNCHANGED <<jobs, running_tasks, tasks, hilo, cola, reloj, next_id, pipe, registro, inferencia, eurlex, busqueda, fetcher>>

NextConv ==
    \/ \E max_rondas \in 1..MaxRondas, umbral \in Umbrales : ejecutar(max_rondas, umbral)
    \/ ejecutar_ronda
    \/ ejecutar_fin

SpecConv == Init /\ [][NextConv]_vars

(***************************************************************************)
(* pipeline_optimizado.py: PipelineOptimizado.procesar_tema, stage by      *)
(* stage, on the references.  A reference carries the fields the stages    *)
(* read; tipo is None when the extractor's JSON had "tipo": null.  Python  *)
(* dicts are functions: d[k] is a KeyError unless k is in DOMAIN d.        *)
(***************************************************************************)
RefP(texto_completo, tipo, ley, confianza) ==
    [texto_completo |-> texto_completo, tipo |-> tipo, ley |-> ley,
     confianza |-> confianza, normalizada |-> FALSE, validada |-> FALSE,
     articulo |-> None, articulo_str |-> TRUE, boe_id |-> None,
     articulo_existe_boe |-> None, celex |-> None, eurlex_celex |-> None]

\* A reference to an article: 'articulo' as the extractor's JSON gave it, a
\* string ("24") or a number (24).
ConArticulo(ref, articulo, articulo_str) ==
    [ref EXCEPT !.articulo = articulo, !.articulo_str = articulo_str]

P1 == RefP("Ley 39/2015, de 1 de octubre", "ley", "Ley 39/2015", 100)

P2 == ConArticulo(RefP("articulo 21", "articulo", "", 95), "21", TRUE)

P3 == RefP("Ley 40/2015", "ley", "Ley 40/2015", 100)

P4 == ConArticulo(RefP("articulo 103 de la Constitucion", "articulo",
                       "Constitucion Espanola", 100), "103", TRUE)

P5 == RefP("Real Decreto 203/2021", "ley", "Real Decreto 203/2021", 80)

P6 == RefP("la disposicion adicional", "disposicion", "", 60)

PNull == RefP("la citada norma", None, "", 100)

\* Article 999 of a law that has no such article, and an article given as a
\* JSON number.
P7 == ConArticulo(RefP("articulo 999 de la Ley 39/2015", "articulo", "Ley 39/2015", 100),
                  "999", TRUE)

P8 == ConArticulo(RefP("articulo 500 de la Ley 40/2015", "articulo", "Ley 40/2015", 100),
                  "500", FALSE)

\* A second mention of Ley 39/2015, in other words and without 'ley'.
PD == RefP("la Ley 39/2015", "ley", "", 100)

\* European legislation: in the official format, named without its number,
\* and by its abbreviation.
E1 == RefP("Reglamento (UE) 2016/679", "reglamento", "", 100)

E2 == RefP("Reglamento (UE) de proteccion de datos", "reglamento", "", 100)

E3 == RefP("RGPD", "reglamento", "", 100)

\* The lists SistemaConvergencia.ejecutar hands to the pipeline.
SalidasConvergencia ==
    { <<>>,
      <<P1, P2>>,
      <<P1, PNull>>,
      <<P7, P2>>,
      <<P8, P4>>,
      <<P1, PD>>,
      <<E1, E2, E3, P1>>,
      <<P1, P2, P3, P4, P5>>,
      <<P1, PNull, P3, P4, P6>> }

MaxWorkers == {2, 4}

UmbralesPipeline == {70}

\* The laws the BOE search finds and the laws _normalizar_formato_ley
\* rewrites (those that match one of its patterns).
EnBOE(ley) == ley \in {"Ley 39/2015", "Ley 40/2015", "Constitucion Espanola"}

FormatoLey(ley) == ley \in {"Ley 39/2015", "Ley 40/2015", "Real Decreto 203/2021"}

Error(c, excepcion) == [c EXCEPT !.etapa = "error", !.error = excepcion]

(***************************************************************************)
(* ContextResolverAgent.procesar.  The references below 100 go through     *)
(* the resolver in batches of ten (one batch here): the contexts of the    *)
(* references found in the text go into the prompt, the LLM's answer is    *)
(* parsed by _parsear_respuesta against the batch, and a call that raises  *)
(* or a batch without a context leaves the batch as it is.  The second     *)
(* pass gives the document's main law, when one is detected, to the        *)
(* references without a law, and lifts 95 and more to 100.  The answer is  *)
(* the complete ones followed by the others.                               *)
(***************************************************************************)
Resolucion(index, ley_identificada, confianza) ==
    [index |-> index, ley_identificada |-> ley_identificada, confianza |-> confianza]

\* A resolution whose JSON object carries no 'confianza'.
ResolucionSinConfianza(index, ley_identificada) ==
    [index |-> index, ley_identificada |-> ley_identificada]

\* What the LLM answers for a batch: nothing usable (the call raises or the
\* JSON does not parse), or resolutions for the batch's first reference,
\* with a confidence or without one.
RespuestasContexto ==
    { [ok |-> FALSE, resoluciones |-> {}],
      [ok |-> TRUE, resoluciones |-> {Resolucion(1, "Ley 39/2015", 80)}],
      [ok |-> TRUE, resoluciones |-> {ResolucionSinConfianza(1, "Ley 40/2015")}] }

\* _parsear_respuesta: the reference at position i takes the law and the
\* confidence of the resolution with index i that names a law; the
\* confidence defaults to 90.
parsear_respuesta(respuesta, referencias_originales) ==
    IF ~respuesta.ok THEN referencias_originales
    ELSE [i \in DOMAIN referencias_originales |->
            LET rs == {r \in respuesta.resoluciones :
                          r.index = i /\ r.ley_identificada # ""}
            IN  IF rs = {} THEN referencias_originales[i]
                ELSE LET resolucion == CHOOSE r \in rs : TRUE
                     IN  [referencias_originales[i] EXCEPT
                            !.ley = resolucion.ley_identificada,
                            !.confianza =
                                IF "confianza" \in DOMAIN resolucion
                                THEN resolucion.confianza ELSE 90]]

\* The document as _encontrar_posicion reads it: the quotations that occur
\* in it.  Either every reference's texto_completo occurs in the text, or
\* the extractor's "articulo 21" does not occur in it as written.
CitasDe(referencias) == {referencias[k].texto_completo : k \in DOMAIN referencias}

TextosOriginales(referencias) ==
    { CitasDe(referencias), CitasDe(referencias) \ {"articulo 21"} }

\* _encontrar_posicion: None for an empty texto_completo and for one that
\* neither pattern finds in the text.
encontrar_posicion(referencia, texto) ==
    referencia.texto_completo # "" /\ referencia.texto_completo \in texto

\* _extraer_contextos: one context per reference that has a position, in
\* the batch's order; the others are skipped.  A context is written here as
\* its 'referencia'.
extraer_contextos(referencias, texto_original) ==
    SelectSeq(referencias, LAMBDA ref : encontrar_posicion(ref, texto_original))

\* The batch: the references below 100.
refs_incompletas_de(referencias) ==
    SelectSeq(referencias, LAMBDA r : r.confianza < 100)

\* The call to the LLM: the prompt numbers the contexts from 1
\* ("Referencia i"), and the answer comes back.  No call when the batch is
\* empty or no context was extracted.
llamada_ia(referencias, respuesta, texto_original) ==
    LET contextos == extraer_contextos(refs_incompletas_de(referencias), texto_original)
    IN  IF contextos = <<>> THEN <<>>
        ELSE << [contextos |-> contextos, respuesta |-> respuesta] >>

resultado_vacio ==
    [referencias_resueltas |-> <<>>, resueltas |-> 0, no_resueltas |-> 0,
     metricas |-> [confianza_promedio_antes |-> 0, confianza_promedio_despues |-> 0]]

SegundaPasada(ref, ley_principal) ==
    IF ley_principal # "" /\ ref.ley = ""
    THEN [ref EXCEPT !.ley = ley_principal, !.confianza = 100]
    ELSE IF ref.confianza >= 95 THEN [ref EXCEPT !.confianza = 100]
    ELSE ref

context_resolver_procesar(referencias, respuesta, ley_principal, texto_original) ==
    IF referencias = <<>> THEN resultado_vacio
    ELSE LET refs_completas == SelectSeq(referencias, LAMBDA r : r.confianza >= 100)
             refs_incompletas == refs_incompletas_de(referencias)
             contextos == extraer_contextos(refs_incompletas, texto_original)
             referencias_mejoradas ==
                 IF contextos = <<>> THEN refs_incompletas
                 ELSE parsear_respuesta(respuesta, refs_incompletas)
             refs_aun_incompletas ==
                 SelectSeq(referencias_mejoradas, LAMBDA r : r.confianza < 100)
             segunda ==
                 SelectSeq(referencias_mejoradas, LAMBDA r : r.confianza >= 100)
                   \o [k \in DOMAIN refs_aun_incompletas |->
                          SegundaPasada(refs_aun_incompletas[k], ley_principal)]
         IN  IF refs_incompletas = <<>>
             THEN [referencias_resueltas |-> referencias, resueltas |-> 0,
                   no_resueltas |-> 0,
                   metricas |-> [confianza_promedio_antes |-> 100,
                                 confianza_promedio_despues |-> 100]]
             ELSE [referencias_resueltas |-> refs_completas \o segunda,
                   resueltas |->
                       Cardinality({k \in DOMAIN segunda : segunda[k].confianza = 100}),
                   no_resueltas |->
                       Cardinality({k \in DOMAIN segunda : segunda[k].confianza # 100}),
                   metricas |-> [confianza_promedio_antes |-> 0,
                                 confianza_promedio_despues |-> 0]]

\* The dict procesar_tema builds itself when use_context_agent is off.
contexto_omitido(referencias) ==
    [referencias |-> referencias, resueltas |-> 0,
     metricas |-> [confianza_promedio_antes |-> 0, confianza_promedio_despues |-> 0]]

(***************************************************************************)
(* TitleResolverAgent.procesar: an empty list is answered with empty       *)
(* metricas; otherwise the references come back in order (a batch whose    *)
(* LLM call fails is kept as it is) with the metrics filled in.            *)
(***************************************************************************)
title_resolver_procesar(referencias) ==
    IF referencias = <<>>
    THEN [referencias_normalizadas |-> <<>>, resueltas |-> 0, no_resueltas |-> 0,
          metricas |-> <<>>]
    ELSE [referencias_normalizadas |-> referencias, resueltas |-> 0,
          no_resueltas |-> Len(referencias),
          metricas |-> [confianza_promedio |-> 0, llamadas_ia |-> 1]]

(***************************************************************************)
(* NormalizerAgent.procesar: a plain loop over the references, no          *)
(* try/except around a reference.  _es_sigla calls                         *)
(* referencia.get('tipo', '').lower(), an AttributeError when tipo is      *)
(* None.                                                                   *)
(***************************************************************************)
Raises(referencia) == referencia.tipo = None

\* es_legislacion_europea: one of the European keywords, in any case, or a
\* known European abbreviation as a word.
es_legislacion_europea(texto) ==
    texto \in {"Reglamento (UE) 2016/679", "Reglamento (UE) de proteccion de datos",
               "RGPD"}

es_sigla_europea(texto) == texto = "RGPD"

obtener_celex_por_sigla(sigla) == IF sigla = "RGPD" THEN "32016R0679" ELSE None

\* extraer_celex_de_texto: the CELEX generated from the act's type, year
\* and number, None when the text carries no number/year pair.
extraer_celex_de_texto(texto) ==
    IF texto = "Reglamento (UE) 2016/679" THEN "32016R0679" ELSE None

\* _normalizar_formato_europeo_con_ia: the text in the official format, or
\* None when the LLM gives nothing.
normalizar_formato_europeo_con_ia(texto) ==
    IF texto = "Reglamento (UE) 2016/679" THEN texto ELSE None

\* _normalizar_referencia_europea: the reference and whether it changed.
\* The CELEX goes to 'celex'; texto_completo is left as it was.
normalizar_referencia_europea(referencia) ==
    LET texto_original == referencia.texto_completo
        normalizado == normalizar_formato_europeo_con_ia(texto_original)
    IN  IF es_sigla_europea(texto_original)
        THEN [referencia |->
                  [referencia EXCEPT !.celex = obtener_celex_por_sigla(texto_original)],
              cambio |-> TRUE]
        ELSE IF normalizado # None
        THEN [referencia |->
                  [referencia EXCEPT !.celex = extraer_celex_de_texto(normalizado)],
              cambio |-> TRUE]
        ELSE IF extraer_celex_de_texto(texto_original) # None
        THEN [referencia |->
                  [referencia EXCEPT !.celex = extraer_celex_de_texto(texto_original)],
              cambio |-> TRUE]
        ELSE [referencia |-> referencia, cambio |-> FALSE]

\* _normalizar_referencia: a European reference that changed returns early;
\* the others get the Spanish format.
normalizar_referencia(referencia) ==
    LET europea == normalizar_referencia_europea(referencia)
    IN  IF es_legislacion_europea(referencia.texto_completo) /\ europea.cambio
        THEN [europea.referencia EXCEPT !.normalizada = TRUE]
        ELSE [referencia EXCEPT !.normalizada = FormatoLey(referencia.ley)]

normalizador_procesar(referencias) ==
    IF \E k \in DOMAIN referencias : Raises(referencias[k])
    THEN [ok |-> FALSE, referencias_normalizadas |-> <<>>]
    ELSE [ok |-> TRUE,
          referencias_normalizadas |->
              [k \in DOMAIN referencias |-> normalizar_referencia(referencias[k])]]

\* _normalizar_paralelo's split: batch_size = max(1, n // max_workers).
Batches(referencias, max_workers) ==
    LET n == Len(referencias)
        batch_size == Max(1, n \div max_workers)
        total == (n + batch_size - 1) \div batch_size
    IN  [b \in 1..total |->
            SubSeq(referencias, (b - 1) * batch_size + 1, Min(n, b * batch_size))]

(***************************************************************************)
(* ValidatorAgent.procesar: what a reference meets on its way is guarded   *)
(* (BOE search and article check catch their exceptions), but the summary  *)
(* line divides by len(referencias).                                       *)
(***************************************************************************)
\* _extraer_ley_de_texto: what the three patterns find in a text.
extraer_ley_de_texto(texto) ==
    CASE texto \in {"Ley 39/2015, de 1 de octubre", "articulo 999 de la Ley 39/2015",
                    "la Ley 39/2015"}
             -> "Ley 39/2015"
      [] texto \in {"Ley 40/2015", "articulo 500 de la Ley 40/2015"} -> "Ley 40/2015"
      [] texto = "Real Decreto 203/2021" -> "Real Decreto 203/2021"
      [] OTHER -> None

\* _extraer_info_ley: the reference's law, or the one found in its text.
extraer_info_ley(referencia) ==
    IF referencia.ley # "" THEN referencia.ley
    ELSE extraer_ley_de_texto(referencia.texto_completo)

\* _buscar_boe_id: the identifier BOESearcher.buscar_ley finds, None when it
\* finds none or raises.
buscar_boe_id(ley) ==
    IF ~EnBOE(ley) THEN None
    ELSE CASE ley = "Ley 39/2015" -> "BOE-A-2015-10565"
           [] ley = "Ley 40/2015" -> "BOE-A-2015-10566"
           [] OTHER -> "BOE-A-1978-31229"

\* The articles of each norm's consolidated text in the BOE.
Indice(boe_id) ==
    CASE boe_id = "BOE-A-2015-10565" -> {"21", "35"}
      [] boe_id = "BOE-A-2015-10566" -> {"3"}
      [] boe_id = "BOE-A-1978-31229" -> {"103"}
      [] boe_id = "BOE-A-1995-25444" -> {"138", "139", "140", "141", "142", "143"}
      [] OTHER -> {}

\* numero_articulo.strip().lstrip('0')
NumeroNorm(numero_articulo) ==
    CASE numero_articulo = "021" -> "21"
      [] numero_articulo = " 21" -> "21"
      [] OTHER -> numero_articulo

Descargas == {"ok", "falla"}

\* BOEDownloader.verificar_articulo_existe: False when the law cannot be
\* downloaded; else the article is looked up, and a number that is not a
\* string raises at .strip().
verificar_articulo_existe(boe_id, articulo, articulo_str, descarga) ==
    IF descarga = "falla" THEN "False"
    ELSE IF ~articulo_str THEN "AttributeError"
    ELSE IF NumeroNorm(articulo) \in Indice(boe_id) THEN "True" ELSE "False"

\* _verificar_articulo_en_boe: 'existe' is True, False, or None when the
\* check raised.
verificar_articulo_en_boe(boe_id, articulo, articulo_str, descarga) ==
    LET existe == verificar_articulo_existe(boe_id, articulo, articulo_str, descarga)
    IN  IF existe = "AttributeError" THEN None ELSE existe

\* _validar_referencia: the BOE-ID found makes the reference validated; an
\* article found absent takes the validation back and nothing else.
validar_referencia(referencia, descarga) ==
    LET ley_info == extraer_info_ley(referencia)
        boe_id == buscar_boe_id(ley_info)
        verificacion_boe ==
            verificar_articulo_en_boe(boe_id, referencia.articulo,
                                      referencia.articulo_str, descarga)
    IN  IF ley_info = None THEN [referencia EXCEPT !.validada = FALSE]
        ELSE IF boe_id = None THEN [referencia EXCEPT !.validada = FALSE]
        ELSE IF referencia.articulo = None
             THEN [referencia EXCEPT !.boe_id = boe_id, !.validada = TRUE]
        ELSE [referencia EXCEPT !.boe_id = boe_id,
                                !.articulo_existe_boe = verificacion_boe,
                                !.validada = (verificacion_boe # "False")]

validador_procesar(referencias, descarga) ==
    IF referencias = <<>>
    THEN [ok |-> FALSE, referencias_validadas |-> <<>>]
    ELSE [ok |-> TRUE,
          referencias_validadas |->
              [k \in DOMAIN referencias |->
                  validar_referencia(referencias[k], descarga)]]

\* _validar_paralelo: under five references one call for the list; from
\* five on one call per reference, each answer stored at its index and the
\* original kept when the call raises.
validar_paralelo(referencias, descarga) ==
    IF Len(referencias) < 5 THEN validador_procesar(referencias, descarga)
    ELSE [ok |-> TRUE,
          referencias_validadas |->
              [k \in DOMAIN referencias |->
                  LET r == validador_procesar(<<referencias[k]>>, descarga)
                  IN  IF r.ok THEN r.referencias_validadas[1] ELSE referencias[k]]]

(***************************************************************************)
(* procesar_tema, phases 1 and 2: the text is extracted and the            *)
(* convergence has answered.                                               *)
(***************************************************************************)
procesar_tema(referencias, use_context_agent, max_workers, umbral_confianza) ==
    /\ pipe.etapa = "idle"
    /\ pipe' = [etapa |-> "convergencia", error |-> None,
                use_context_agent |-> use_context_agent,
                max_workers |-> max_workers, umbral_confianza |-> umbral_confianza,
                resultado_convergencia |-> [referencias |-> referencias],
                llamada_contexto |-> <<>>,
                resultado_contexto |-> <<>>, entrada_titulos |-> <<>>,
                resultado_titulos |-> <<>>,
                entrada_normalizacion |-> <<>>, batches |-> <<>>, pendientes |-> {},
                referencias_normalizadas |-> <<>>,
                salida_validacion |-> <<>>, referencias_validadas |-> <<>>,
                exportar |-> FALSE, referencias_exportadas |-> <<>>,
                informe_final |-> None]
    /\ UNCHANGED <<jobs, running_tasks, tasks, hilo, cola, reloj, next_id, conv, registro, inferencia, eurlex, busqueda, fetcher>>

\* Phase 2.3: the context resolver, or the dict that stands for it.
fase_contexto ==
    /\ pipe.etapa = "convergencia"
    /\ \E respuesta \in RespuestasContexto, ley_principal \in {"", "Ley 39/2015"},
          texto_original \in TextosOriginales(pipe.resultado_convergencia.referencias) :
         pipe' = [pipe EXCEPT
                    !.etapa = "contexto",
                    !.llamada_contexto =
                        IF pipe.use_context_agent
                        THEN llamada_ia(pipe.resultado_convergencia.referencias,
                                        respuesta, texto_original)
                        ELSE <<>>,
                    !.resultado_contexto =
                        IF pipe.use_context_agent
                        THEN context_resolver_procesar(
                                 pipe.resultado_convergencia.referencias,
                                 respuesta, ley_principal, texto_original)
                        ELSE contexto_omitido(pipe.resultado_convergencia.referencias)]
    /\ UNCHANGED <<jobs, running_tasks, tasks, hilo, cola, reloj, next_id, conv, registro, inferencia, eurlex, busqueda, fetcher>>

\* Phase 2.5: resultado_contexto['referencias_resueltas'] goes to the title
\* resolver, and resultado_titulos['metricas']['confianza_promedio'] is
\* logged.
fase_titulos ==
    /\ pipe.etapa = "contexto"
    /\ pipe' =
         IF "referencias_resueltas" \notin DOMAIN pipe.resultado_contexto
         THEN Error(pipe, "KeyError: 'referencias_resueltas'")
         ELSE LET entrada == pipe.resultado_contexto.referencias_resueltas
                  resultado_titulos == title_resolver_procesar(entrada)
              IN  IF "confianza_promedio" \notin DOMAIN resultado_titulos.metricas
                  THEN Error([pipe EXCEPT !.entrada_titulos = entrada,
                                          !.resultado_titulos = resultado_titulos],
                             "KeyError: 'confianza_promedio'")
                  ELSE [pipe EXCEPT !.etapa = "titulos",
                                    !.entrada_titulos = entrada,
                                    !.resultado_titulos = resultado_titulos]
    /\ UNCHANGED <<jobs, running_tasks, tasks, hilo, cola, reloj, next_id, conv, registro, inferencia, eurlex, busqueda, fetcher>>

\* Phase 3, _normalizar_paralelo: under five references the normalizer is
\* called on the list and what it raises leaves procesar_tema; from five on
\* the batches are submitted to the pool.
fase_normalizacion ==
    /\ pipe.etapa = "titulos"
    /\ LET referencias == pipe.resultado_titulos.referencias_normalizadas
           resultado == normalizador_procesar(referencias)
       IN  pipe' =
             IF Len(referencias) < 5
             THEN IF resultado.ok
                  THEN [pipe EXCEPT !.etapa = "normalizadas",
                                    !.entrada_normalizacion = referencias,
                                    !.referencias_normalizadas =
                                        resultado.referencias_normalizadas]
                  ELSE Error([pipe EXCEPT !.entrada_normalizacion = referencias],
                             "AttributeError")
             ELSE [pipe EXCEPT !.etapa = "normalizando",
                               !.entrada_normalizacion = referencias,
                               !.batches = Batches(referencias, pipe.max_workers),
                               !.pendientes =
                                   DOMAIN Batches(referencias, pipe.max_workers)]
    /\ UNCHANGED <<jobs, running_tasks, tasks, hilo, cola, reloj, next_id, conv, registro, inferencia, eurlex, busqueda, fetcher>>

\* as_completed hands over the next finished batch, whichever it is: its
\* result is appended, or the batch is logged and left out when it raised.
\* After the last one the list is returned.
normalizar_batch(b) ==
    /\ pipe.etapa = "normalizando"
    /\ b \in pipe.pendientes
    /\ LET resultado == normalizador_procesar(pipe.batches[b])
       IN  pipe' = [pipe EXCEPT
                      !.referencias_normalizadas =
                          IF resultado.ok THEN @ \o resultado.referencias_normalizadas
                          ELSE @,
                      !.pendientes = @ \ {b},
                      !.etapa = IF pipe.pendientes = {b} THEN "normalizadas" ELSE @]
    /\ UNCHANGED <<jobs, running_tasks, tasks, hilo, cola, reloj, next_id, conv, registro, inferencia, eurlex, busqueda, fetcher>>

\* Phase 4: _validar_paralelo and the filter by umbral_confianza.
fase_validacion ==
    /\ pipe.etapa = "normalizadas"
    /\ \E descarga \in Descargas :
       LET resultado == validar_paralelo(pipe.referencias_normalizadas, descarga)
       IN  pipe' =
             IF resultado.ok
             THEN [pipe EXCEPT
                     !.etapa = "validadas",
                     !.salida_validacion = resultado.referencias_validadas,
                     !.referencias_validadas =
                         SelectSeq(resultado.referencias_validadas,
                                   LAMBDA r : r.confianza >= pipe.umbral_confianza)]
             ELSE Error(pipe, "ZeroDivisionError")
    /\ UNCHANGED <<jobs, running_tasks, tasks, hilo, cola, reloj, next_id, conv, registro, inferencia, eurlex, busqueda, fetcher>>

\* Exportador._debe_exportarse: a BOE-ID, or one of the European keywords
\* (as written, case and all) in texto_completo.
es_eurlex(texto_completo) ==
    texto_completo \in {"Reglamento (UE) 2016/679",
                        "Reglamento (UE) de proteccion de datos"}

debe_exportarse(ref) == ref.boe_id # None \/ es_eurlex(ref.texto_completo)

\* enriquecer_referencia_eurlex, as far as the CELEX: None when the text
\* gives none.
enriquecer_eurlex(texto_completo) == extraer_celex_de_texto(texto_completo)

\* Exportador._enriquecer_referencias: the references that are to be
\* exported, the European ones with the CELEX their text gives.
enriquecer_referencias(referencias) ==
    LET exportables == SelectSeq(referencias, debe_exportarse)
    IN  [k \in DOMAIN exportables |->
            IF es_eurlex(exportables[k].texto_completo)
            THEN [exportables[k] EXCEPT
                    !.eurlex_celex = enriquecer_eurlex(exportables[k].texto_completo)]
            ELSE exportables[k]]

\* Phases 5 to 7 and the final report, taken as one step that succeeds:
\* with 'exportar' the validated references go through the exporter.
fase_final ==
    /\ pipe.etapa = "validadas"
    /\ \E exportar \in BOOLEAN :
         pipe' = [pipe EXCEPT
                    !.etapa = "informe",
                    !.exportar = exportar,
                    !.referencias_exportadas =
                        IF exportar THEN enriquecer_referencias(pipe.referencias_validadas)
                        ELSE <<>>,
                    !.informe_final =
                        [total_referencias |-> Len(pipe.referencias_validadas)]]
    /\ UNCHANGED <<jobs, running_tasks, tasks, hilo, cola, reloj, next_id, conv, registro, inferencia, eurlex, busqueda, fetcher>>

NextPipe ==
    \/ \E referencias \in SalidasConvergencia, use_context_agent \in BOOLEAN,
          max_workers \in MaxWorkers, umbral_confianza \in UmbralesPipeline :
         procesar_tema(referencias, use_context_agent, max_workers, umbral_confianza)
    \/ fase_contexto
    \/ fase_titulos
    \/ fase_normalizacion
    \/ \E b \in pipe.pendientes : normalizar_batch(b)
    \/ fase_validacion
    \/ fase_final

SpecPipe == Init /\ [][NextPipe]_vars

(***************************************************************************)
(* The clients of the remote registries, called by the pool threads of     *)
(* _validar_paralelo and by the exporter.  A lookup is two steps, the      *)
(* call up to the request and the return with the response, and nothing    *)
(* is held between them: the modules take no lock.  A call that finds its  *)
(* key cached returns what is cached and changes nothing, so it is no      *)
(* step here.                                                              *)
(***************************************************************************)
Respuestas == {"200", "500", "error_red", "timeout"}

\* The keys the functions under functools.lru_cache are called with.
ClavesLru(f) ==
    CASE f = "obtener_indice" -> {"BOE-A-2015-10565"}
      [] f = "verificar_celex_existe" -> {"32016R0679"}
      [] OTHER -> {"BOE-A-2015-10565/21"}

ClavesBusqueda == {"ley 39/2015_2015_", "ley 40/2015_2015_"}

ClavesDescarga == {"BOE-A-2015-10565"}

\* BOEIndexFetcher.obtener_indice: the index, or None for a status other
\* than 200 and for whatever is raised.
obtener_indice(respuesta) == IF respuesta = "200" THEN "indice" ELSE None

\* eurlex_fetcher.verificar_celex_existe: (True, metadatos) for the CELEX
\* that is found; (False, None) for a status other than 200 and for
\* whatever is raised.
verificar_celex_existe(respuesta) ==
    IF respuesta = "200" THEN <<TRUE, "metadatos">> ELSE <<FALSE, None>>

\* BOEArticleFetcher.obtener_articulo, its strategies' requests taken as
\* one: the article, or None when they give nothing or something is raised.
obtener_articulo(respuesta) == IF respuesta = "200" THEN "articulo" ELSE None

Retorno(f, respuesta) ==
    CASE f = "obtener_indice" -> obtener_indice(respuesta)
      [] f = "verificar_celex_existe" -> verificar_celex_existe(respuesta)
      [] OTHER -> obtener_articulo(respuesta)

Llamando(servicio, key) == [pc |-> servicio, key |-> key]

Idle == [pc |-> "idle"]

\* A decorated function is called with a key that is not in its cache: the
\* wrapper calls the function, which sends its request.
lru_cache_llamada(w, f, key) ==
    /\ registro.workers[w] = Idle
    /\ key \notin DOMAIN registro.lru[f]
    /\ registro' = [registro EXCEPT !.workers[w] = Llamando(f, key)]
    /\ UNCHANGED <<jobs, running_tasks, tasks, hilo, cola, reloj, next_id, conv, pipe, inferencia, eurlex, busqueda, fetcher>>

\* The function returns, having caught whatever went wrong, and the wrapper
\* stores what it returned unless the key was stored in the meantime.
lru_cache_retorno(w, respuesta) ==
    /\ registro.workers[w].pc \in FuncionesLru
    /\ LET f == registro.workers[w].pc
           key == registro.workers[w].key
       IN  registro' = [registro EXCEPT
                     !.workers[w] = Idle,
                     !.lru[f] = IF key \in DOMAIN @ THEN @
                                ELSE Dict(@, key, Retorno(f, respuesta))]
    /\ UNCHANGED <<jobs, running_tasks, tasks, hilo, cola, reloj, next_id, conv, pipe, inferencia, eurlex, busqueda, fetcher>>

\* BOESearcher.buscar_ley up to its first request: the key is not in
\* self.cache.
buscar_ley(w, cache_key) ==
    /\ registro.workers[w] = Idle
    /\ cache_key \notin DOMAIN registro.cache
    /\ registro' = [registro EXCEPT !.workers[w] = Llamando("buscar_ley", cache_key)]
    /\ UNCHANGED <<jobs, running_tasks, tasks, hilo, cola, reloj, next_id, conv, pipe, inferencia, eurlex, busqueda, fetcher>>

\* The BOE-ID the search gives for a key.
BoeIdDe(cache_key) ==
    IF cache_key = "ley 39/2015_2015_" THEN "BOE-A-2015-10565" ELSE "BOE-A-2015-10566"

\* buscar_ley from the response on: a BOE-ID found goes to self.cache and
\* _guardar_cache dumps self.cache to boe_ids_cache.json; nothing is stored
\* when none is found.
buscar_ley_retorno(w, respuesta) ==
    /\ registro.workers[w].pc = "buscar_ley"
    /\ LET cache_key == registro.workers[w].key
           cache == Dict(registro.cache, cache_key, BoeIdDe(cache_key))
       IN  registro' = IF respuesta = "200"
                  THEN [registro EXCEPT !.workers[w] = Idle,
                                   !.cache = cache,
                                   !.cache_file = cache]
                  ELSE [registro EXCEPT !.workers[w] = Idle]
    /\ UNCHANGED <<jobs, running_tasks, tasks, hilo, cola, reloj, next_id, conv, pipe, inferencia, eurlex, busqueda, fetcher>>

\* BOEDownloader.descargar_ley up to its request: _get_from_cache finds no
\* file for the law.
descargar_ley(w, boe_id) ==
    /\ registro.workers[w] = Idle
    /\ boe_id \notin DOMAIN registro.boe_html
    /\ registro' = [registro EXCEPT !.workers[w] = Llamando("descargar_ley", boe_id)]
    /\ UNCHANGED <<jobs, running_tasks, tasks, hilo, cola, reloj, next_id, conv, pipe, inferencia, eurlex, busqueda, fetcher>>

\* descargar_ley from the response on: a 200 is parsed and _save_to_cache
\* writes the law's file; anything else returns None.
descargar_ley_retorno(w, respuesta) ==
    /\ registro.workers[w].pc = "descargar_ley"
    /\ LET boe_id == registro.workers[w].key
       IN  registro' = IF respuesta = "200"
                  THEN [registro EXCEPT !.workers[w] = Idle,
                                   !.boe_html = Dict(@, boe_id, "articulos")]
                  ELSE [registro EXCEPT !.workers[w] = Idle]
    /\ UNCHANGED <<jobs, running_tasks, tasks, hilo, cola, reloj, next_id, conv, pipe, inferencia, eurlex, busqueda, fetcher>>

NextCache ==
    \/ \E w \in Workers, f \in FuncionesLru : \E key \in ClavesLru(f) :
         lru_cache_llamada(w, f, key)
    \/ \E w \in Workers, respuesta \in Respuestas : lru_cache_retorno(w, respuesta)
    \/ \E w \in Workers, cache_key \in ClavesBusqueda : buscar_ley(w, cache_key)
    \/ \E w \in Workers, respuesta \in Respuestas : buscar_ley_retorno(w, respuesta)
    \/ \E w \in Workers, boe_id \in ClavesDescarga : descargar_ley(w, boe_id)
    \/ \E w \in Workers, respuesta \in Respuestas : descargar_ley_retorno(w, respuesta)

SpecCache == Init /\ [][NextCache]_vars

(***************************************************************************)
(* InferenceAgent: the agent is built with the index fetcher, or without   *)
(* it when the import of api.config or of the fetcher's module failed; the *)
(* LLM maps a concept to a law and a range of articles; _validar_articulos *)
(* checks the range against the law's index and _deduplicar drops what the *)
(* existing references already have.                                       *)
(***************************************************************************)
PrimerArticulo == 136

UltimoArticulo == 145

\* InferenceAgent.__init__: boe_fetcher is the fetcher when
\* get_boe_index_fetcher was imported, None otherwise.
InferenceAgent_init(get_boe_index_fetcher) ==
    /\ inferencia.estado = "idle"
    /\ inferencia' = [estado |-> "listo",
                      boe_fetcher |-> IF get_boe_index_fetcher THEN "BOEIndexFetcher"
                                      ELSE None]
    /\ UNCHANGED <<jobs, running_tasks, tasks, hilo, cola, reloj, next_id, conv, pipe,
                   registro, eurlex, busqueda, fetcher>>

\* _mapear_concepto_a_ley: the articles are the numbers from articulos_inicio
\* to articulos_fin, as strings.
mapear_concepto_a_ley(articulos_inicio, articulos_fin) ==
    [ley |-> "Codigo Penal", boe_id |-> "BOE-A-1995-25444",
     articulos |-> [k \in 1..(articulos_fin - articulos_inicio + 1) |->
                       ToString(articulos_inicio + k - 1)],
     concepto_detectado |-> "homicidio", confianza |-> 85]

Inferida(mapeo, articulos) ==
    [ley |-> mapeo.ley, boe_id |-> mapeo.boe_id, articulos |-> articulos,
     concepto_detectado |-> mapeo.concepto_detectado, confianza |-> mapeo.confianza,
     tipo |-> "inferida"]

\* _validar_articulos: without a fetcher the proposal is accepted as it is;
\* with it, None when the index cannot be had, when no proposed article is
\* in it, or when fewer than half of them are.  The Optional it returns is
\* a list of the one reference, or of none.
validar_articulos(mapeo, boe_fetcher, respuesta) ==
    LET indice == obtener_indice(respuesta)
        articulos_reales == Indice(mapeo.boe_id)
        articulos_validos ==
            SelectSeq(mapeo.articulos, LAMBDA art : art \in articulos_reales)
    IN  IF boe_fetcher = None THEN <<Inferida(mapeo, mapeo.articulos)>>
        ELSE IF indice = None THEN <<>>
        ELSE IF articulos_validos = <<>> THEN <<>>
        ELSE IF 2 * Len(articulos_validos) < Len(mapeo.articulos) THEN <<>>
        ELSE <<Inferida(mapeo, articulos_validos)>>

\* The set of (boe_id, articulo) _deduplicar builds from the existing
\* references: one pair for each element of a reference's 'articulos', and
\* none for a reference that has no such key.
existentes_set(existentes) ==
    UNION { IF "articulos" \in DOMAIN existentes[k]
            THEN { <<existentes[k].boe_id, existentes[k].articulos[i]>> :
                      i \in DOMAIN existentes[k].articulos }
            ELSE {} : k \in DOMAIN existentes }

\* _deduplicar: a reference stays, with its new articles only, when at
\* least half of its articles are not among the existing ones.
deduplicar(inferidas, existentes) ==
    LET Nuevos(ref) ==
            SelectSeq(ref.articulos,
                      LAMBDA art : <<ref.boe_id, art>> \notin existentes_set(existentes))
        unicas == SelectSeq(inferidas,
                            LAMBDA ref : 2 * Len(Nuevos(ref)) >= Len(ref.articulos))
    IN  [k \in DOMAIN unicas |-> [unicas[k] EXCEPT !.articulos = Nuevos(unicas[k])]]

\* A reference as ValidatorAgent leaves it: article 138 of the Codigo Penal,
\* found in the BOE.
Validada138 ==
    [ConArticulo(RefP("articulo 138 del Codigo Penal", "articulo", "Codigo Penal", 100),
                 "138", TRUE)
        EXCEPT !.boe_id = "BOE-A-1995-25444", !.articulo_existe_boe = "True",
               !.validada = TRUE]

\* The referencias_validadas the pipeline passes to inferir_normas.
ReferenciasValidadas == { <<>>, <<Validada138>> }

\* inferir_normas up to the mapping of the concept it detected.
inferir_normas(articulos_inicio, articulos_fin) ==
    /\ inferencia.estado = "listo"
    /\ inferencia' = [estado |-> "mapeado",
                      boe_fetcher |-> inferencia.boe_fetcher,
                      mapeo |-> mapear_concepto_a_ley(articulos_inicio, articulos_fin)]
    /\ UNCHANGED <<jobs, running_tasks, tasks, hilo, cola, reloj, next_id, conv, pipe,
                   registro, eurlex, busqueda, fetcher>>

\* inferir_normas from the validation on: what is validated is kept, and
\* the list goes through _deduplicar.
inferir_normas_retorno(respuesta, referencias_existentes) ==
    /\ inferencia.estado = "mapeado"
    /\ LET validado == validar_articulos(inferencia.mapeo, inferencia.boe_fetcher,
                                         respuesta)
       IN  inferencia' = [estado |-> "inferido",
                          boe_fetcher |-> inferencia.boe_fetcher,
                          mapeo |-> inferencia.mapeo,
                          indice |-> IF inferencia.boe_fetcher = None THEN None
                                     ELSE obtener_indice(respuesta),
                          referencias_existentes |-> referencias_existentes,
                          referencias_inferidas |->
                              deduplicar(validado, referencias_existentes)]
    /\ UNCHANGED <<jobs, running_tasks, tasks, hilo, cola, reloj, next_id, conv, pipe,
                   registro, eurlex, busqueda, fetcher>>

NextInfer ==
    \/ \E get_boe_index_fetcher \in BOOLEAN : InferenceAgent_init(get_boe_index_fetcher)
    \/ \E articulos_inicio \in PrimerArticulo..UltimoArticulo :
         \E articulos_fin \in articulos_inicio..UltimoArticulo :
           inferir_normas(articulos_inicio, articulos_fin)
    \/ \E respuesta \in Respuestas, referencias_existentes \in ReferenciasValidadas :
         inferir_normas_retorno(respuesta, referencias_existentes)

SpecInfer == Init /\ [][NextInfer]_vars

(***************************************************************************)
(* The CELEX of a European act (modules/eurlex_fetcher.py).  A document    *)
(* cites an act by its kind and two numbers around a slash;                *)
(* extraer_celex_de_texto takes the two numbers its pattern matched,       *)
(* decides which is the year, and generar_celex writes the identifier.  A  *)
(* string is the sequence of its characters.                               *)
(***************************************************************************)
RECURSIVE Decimal(_)
\* str(n) of a natural number.
Decimal(n) ==
    IF n < 10 THEN <<ToString(n)>> ELSE Decimal(n \div 10) \o <<ToString(n % 10)>>

\* f"{numero:04d}": zeros to the left up to four characters, and every digit
\* of a longer number.
Formato04d(numero) ==
    LET d == Decimal(numero)
    IN  IF Len(d) >= 4 THEN d ELSE [i \in 1..(4 - Len(d)) |-> "0"] \o d

\* generar_celex: a type other than R, L, D becomes R.
generar_celex(tipo, anio, numero) ==
    LET tipo_upper == IF tipo \in {"R", "L", "D"} THEN tipo ELSE "R"
    IN  <<"3">> \o Decimal(anio) \o <<tipo_upper>> \o Formato04d(numero)

\* extraer_celex_de_texto, from the match of one of its three patterns on:
\* the first number is the year when it is 1000 or more, else the second.
celex_de_match(tipo, num1, num2) ==
    IF num1 >= 1000 THEN generar_celex(tipo, num1, num2)
    ELSE generar_celex(tipo, num2, num1)

\* The acts the documents cite, and the ways their citations are written:
\* year/number, number/year, and the two-digit year of the acts up to 1998.
TiposActo == {"R", "L", "D"}

Anios == {1993, 2006, 2016}

Numeros == {1, 13, 593, 679, 1907}

Escrituras == {"YYYY/NNN", "NNN/YYYY", "YY/NNN"}

\* The two numbers of the citation, as the pattern's groups give them.
Cita(tipo, anio, numero, escritura) ==
    [tipo |-> tipo, anio |-> anio, numero |-> numero, escritura |-> escritura,
     num1 |-> CASE escritura = "YYYY/NNN" -> anio
                [] escritura = "NNN/YYYY" -> numero
                [] OTHER -> anio % 100,
     num2 |-> CASE escritura = "NNN/YYYY" -> anio
                [] OTHER -> numero]

\* A reference to a European act comes out of the extraction.
cita_europea(tipo, anio, numero, escritura) ==
    /\ eurlex.estado = "idle"
    /\ escritura = "YY/NNN" => anio < 1999
    /\ eurlex' = [estado |-> "citado", cita |-> Cita(tipo, anio, numero, escritura)]
    /\ UNCHANGED <<jobs, running_tasks, tasks, hilo, cola, reloj, next_id, conv, pipe,
                   registro, inferencia, busqueda, fetcher>>

\* extraer_celex_de_texto on the reference's text.
extraer_celex ==
    /\ eurlex.estado = "citado"
    /\ eurlex' = [estado |-> "extraido", cita |-> eurlex.cita,
                  celex |-> celex_de_match(eurlex.cita.tipo, eurlex.cita.num1,
                                           eurlex.cita.num2)]
    /\ UNCHANGED <<jobs, running_tasks, tasks, hilo, cola, reloj, next_id, conv, pipe,
                   registro, inferencia, busqueda, fetcher>>

NextCelex ==
    \/ \E tipo \in TiposActo, anio \in Anios, numero \in Numeros,
          escritura \in Escrituras : cita_europea(tipo, anio, numero, escritura)
    \/ extraer_celex

SpecCelex == Init /\ [][NextCelex]_vars

(***************************************************************************)
(* BOESearcher.buscar_ley, strategy by strategy (modules/boe_searcher.py). *)
(* consultas lists the lookups made, in order: the source looked up        *)
(* (the map of siglas and names, the map of known (type, number), the      *)
(* BOE's search API), whether the type and number came from the reference  *)
(* or from the official title, and whether the lookup gave a BOE-ID.       *)
(***************************************************************************)
Consulta(fuente, desde, exito) == [fuente |-> fuente, desde |-> desde, exito |-> exito]

\* What the validator passes: ley_info's 'referencia', 'año' and
\* 'titulo_completo'.
LeyInfo(referencia, anio, titulo_completo) ==
    [referencia |-> referencia, anio |-> anio, titulo_completo |-> titulo_completo]

LeyesInfo ==
    { LeyInfo("CE", None, None),
      LeyInfo("Ley 9/2017", "2017", None),
      LeyInfo("Ley 9/2017", "2017", "Ley 9/2017, de 8 de noviembre"),
      LeyInfo("Ley 19/2013", "2013", None),
      LeyInfo("Ley 19/2013", "2013", "Ley 19/2013, de 9 de diciembre"),
      LeyInfo("Ley 39/2015", "2015", None),
      LeyInfo("Real Decreto 203/2021", "2021", None),
      LeyInfo("Real Decreto 203/2021", "2021", "Real Decreto 203/2021, de 30 de marzo"),
      LeyInfo("Codigo Penal", None, "Ley Organica 10/1995, del Codigo Penal") }

\* _buscar_en_mapeo_siglas: referencia.lower().strip() in mapeo_siglas.
buscar_en_mapeo_siglas(referencia) ==
    CASE referencia = "CE" -> "BOE-A-1978-31229"
      [] referencia = "Ley 39/2015" -> "BOE-A-2015-10565"
      [] OTHER -> None

\* _extraer_tipo_numero: (type, "N/YYYY") of the reference.
extraer_tipo_numero(referencia) ==
    CASE referencia = "Ley 9/2017" -> <<"Ley", "9/2017">>
      [] referencia = "Ley 19/2013" -> <<"Ley", "19/2013">>
      [] referencia = "Ley 39/2015" -> <<"Ley", "39/2015">>
      [] referencia = "Real Decreto 203/2021" -> <<"Real Decreto", "203/2021">>
      [] OTHER -> <<>>

\* The type, number and year that _buscar_por_patron and
\* _buscar_por_titulo_completo match in their text: the number without
\* its year.
TipoNumeroAnio(texto) ==
    CASE texto \in {"Ley 9/2017", "Ley 9/2017, de 8 de noviembre"} -> <<"Ley", "9", "2017">>
      [] texto \in {"Ley 19/2013", "Ley 19/2013, de 9 de diciembre"}
             -> <<"Ley", "19", "2013">>
      [] texto = "Ley 39/2015" -> <<"Ley", "39", "2015">>
      [] texto \in {"Real Decreto 203/2021", "Real Decreto 203/2021, de 30 de marzo"}
             -> <<"Real Decreto", "203", "2021">>
      [] texto = "Ley Organica 10/1995, del Codigo Penal"
             -> <<"Ley Organica", "10", "1995">>
      [] OTHER -> <<>>

\* mapeo_siglas_nombres and mapeo_conocido of _consultar_api_boe, by type
\* and number.
mapeo_siglas_nombres(tipo, numero) ==
    CASE <<tipo, numero>> = <<"Ley", "1/2000">> -> "BOE-A-2000-323"
      [] <<tipo, numero>> = <<"Ley", "15/2015">> -> "BOE-A-2015-7391"
      [] OTHER -> None

mapeo_conocido(tipo, numero) ==
    CASE <<tipo, numero>> = <<"Ley", "39/2015">> -> "BOE-A-2015-10565"
      [] <<tipo, numero>> = <<"Ley", "9/2017">> -> "BOE-A-2017-12902"
      [] <<tipo, numero>> = <<"Real Decreto", "203/2021">> -> "BOE-A-2021-5032"
      [] OTHER -> None

\* f"{numero}/{año}"
NumeroAnio(numero, anio) ==
    CASE <<numero, anio>> = <<"9", "2017">> -> "9/2017"
      [] <<numero, anio>> = <<"19", "2013">> -> "19/2013"
      [] <<numero, anio>> = <<"39", "2015">> -> "39/2015"
      [] <<numero, anio>> = <<"203", "2021">> -> "203/2021"
      [] <<numero, anio>> = <<"10", "1995">> -> "10/1995"
      [] OTHER -> "otro"

\* What the BOE's search API has under numero_oficial.
EnApiBoe(numero_completo) ==
    CASE numero_completo = "9/2017" -> "BOE-A-2017-12902"
      [] numero_completo = "19/2013" -> "BOE-A-2013-12887"
      [] numero_completo = "39/2015" -> "BOE-A-2015-10565"
      [] numero_completo = "203/2021" -> "BOE-A-2021-5032"
      [] numero_completo = "10/1995" -> "BOE-A-1995-25444"
      [] OTHER -> None

Resultado_busqueda(boe_id, consultas) == [boe_id |-> boe_id, consultas |-> consultas]

\* _buscar_en_api_boe: a 200 with a matching item gives the BOE-ID;
\* anything else, None.
buscar_en_api_boe(numero, anio, api) ==
    LET numero_completo == IF numero \in {"9", "19", "39", "203", "10"}
                           THEN NumeroAnio(numero, anio)
                           ELSE numero
    IN  IF api = "200" THEN EnApiBoe(numero_completo) ELSE None

\* _consultar_api_boe: the map of siglas and names, then the map of known
\* (type, number), each hit checked by _verificar_boe_id, then the search
\* API.
consultar_api_boe(tipo, numero, anio, desde, verifica, api) ==
    LET sigla == IF mapeo_siglas_nombres(tipo, numero) # None
                 THEN mapeo_siglas_nombres(tipo, numero)
                 ELSE mapeo_siglas_nombres(tipo, NumeroAnio(numero, anio))
        conocido == mapeo_conocido(tipo, numero)
        encontrado == buscar_en_api_boe(numero, anio, api)
        c1 == Consulta("mapeo_siglas", desde, sigla # None /\ verifica = "200")
        c2 == Consulta("mapeo_conocido", desde, conocido # None /\ verifica = "200")
        c3 == Consulta("api", desde, encontrado # None)
    IN  IF c1.exito THEN Resultado_busqueda(sigla, <<c1>>)
        ELSE IF c2.exito THEN Resultado_busqueda(conocido, <<c1, c2>>)
        ELSE Resultado_busqueda(encontrado, <<c1, c2, c3>>)

\* _buscar_sin_año: _consultar_api_boe for each of the last thirty years,
\* until one gives a BOE-ID.
AniosRecientes == 30

RECURSIVE buscar_sin_anio(_, _, _, _, _)
buscar_sin_anio(tipo, numero, quedan, verifica, api) ==
    LET r == consultar_api_boe(tipo, numero, "anio", "referencia", verifica, api)
    IN  IF quedan = 0 THEN Resultado_busqueda(None, <<>>)
        ELSE IF r.boe_id # None THEN r
        ELSE LET resto == buscar_sin_anio(tipo, numero, quedan - 1, verifica, api)
             IN  Resultado_busqueda(resto.boe_id, r.consultas \o resto.consultas)

\* buscar_ley: the key is not in self.cache, and strategy 0 looks the
\* reference up in the map of siglas.
buscar_ley_estrategia_0(ley_info) ==
    /\ busqueda.pc = "idle"
    /\ LET boe_id == buscar_en_mapeo_siglas(ley_info.referencia)
       IN  busqueda' = [pc |-> "0.5", ley_info |-> ley_info, boe_id |-> boe_id,
                        consultas |-> <<Consulta("mapeo_siglas", "referencia",
                                                 boe_id # None)>>]
    /\ UNCHANGED <<jobs, running_tasks, tasks, hilo, cola, reloj, next_id, conv, pipe,
                   registro, inferencia, eurlex, fetcher>>

\* What a strategy leaves in the state.
Tras(pc, r) ==
    [busqueda EXCEPT !.pc = pc, !.boe_id = r.boe_id, !.consultas = @ \o r.consultas]

\* Strategy 0.5, _buscar_por_titulo_completo: when nothing was found and
\* there is a title.
buscar_ley_estrategia_0_5(verifica, api) ==
    /\ busqueda.pc = "0.5"
    /\ LET t == TipoNumeroAnio(busqueda.ley_info.titulo_completo)
       IN  busqueda' =
             IF busqueda.boe_id = None /\ busqueda.ley_info.titulo_completo # None
                /\ t # <<>>
             THEN Tras("1", consultar_api_boe(t[1], t[2], t[3], "titulo", verifica, api))
             ELSE [busqueda EXCEPT !.pc = "1"]
    /\ UNCHANGED <<jobs, running_tasks, tasks, hilo, cola, reloj, next_id, conv, pipe,
                   registro, inferencia, eurlex, fetcher>>

\* Strategy 1, _buscar_con_año.
buscar_ley_estrategia_1(verifica, api) ==
    /\ busqueda.pc = "1"
    /\ LET t == extraer_tipo_numero(busqueda.ley_info.referencia)
       IN  busqueda' =
             IF busqueda.boe_id = None /\ busqueda.ley_info.anio # None /\ t # <<>>
             THEN Tras("2", consultar_api_boe(t[1], t[2], busqueda.ley_info.anio,
                                              "referencia", verifica, api))
             ELSE [busqueda EXCEPT !.pc = "2"]
    /\ UNCHANGED <<jobs, running_tasks, tasks, hilo, cola, reloj, next_id, conv, pipe,
                   registro, inferencia, eurlex, fetcher>>

\* Strategy 2, _buscar_sin_año: when nothing was found and there is a year.
buscar_ley_estrategia_2(verifica, api) ==
    /\ busqueda.pc = "2"
    /\ LET t == extraer_tipo_numero(busqueda.ley_info.referencia)
       IN  busqueda' =
             IF busqueda.boe_id = None /\ busqueda.ley_info.anio # None /\ t # <<>>
             THEN Tras("3", buscar_sin_anio(t[1], t[2], AniosRecientes, verifica, api))
             ELSE [busqueda EXCEPT !.pc = "3"]
    /\ UNCHANGED <<jobs, running_tasks, tasks, hilo, cola, reloj, next_id, conv, pipe,
                   registro, inferencia, eurlex, fetcher>>

\* Strategy 3, _buscar_por_patron, and the return.
buscar_ley_estrategia_3(verifica, api) ==
    /\ busqueda.pc = "3"
    /\ LET t == TipoNumeroAnio(busqueda.ley_info.referencia)
       IN  busqueda' =
             IF busqueda.boe_id = None /\ t # <<>>
             THEN Tras("fin", consultar_api_boe(t[1], t[2], t[3], "referencia",
                                                verifica, api))
             ELSE [busqueda EXCEPT !.pc = "fin"]
    /\ UNCHANGED <<jobs, running_tasks, tasks, hilo, cola, reloj, next_id, conv, pipe,
                   registro, inferencia, eurlex, fetcher>>

NextBusqueda ==
    \/ \E ley_info \in LeyesInfo : buscar_ley_estrategia_0(ley_info)
    \/ \E verifica \in Respuestas, api \in Respuestas :
         buscar_ley_estrategia_0_5(verifica, api)
    \/ \E verifica \in Respuestas, api \in Respuestas :
         buscar_ley_estrategia_1(verifica, api)
    \/ \E verifica \in Respuestas, api \in Respuestas :
         buscar_ley_estrategia_2(verifica, api)
    \/ \E verifica \in Respuestas, api \in Respuestas :
         buscar_ley_estrategia_3(verifica, api)

SpecBusqueda == Init /\ [][NextBusqueda]_vars

(***************************************************************************)
(* modules/boe_article_fetcher.py: BOEArticleFetcher.obtener_articulo      *)
(* behind @lru_cache(maxsize=200), on the singleton that                   *)
(* get_boe_article_fetcher returns.  The cache keeps, per key, the object  *)
(* the body returned: None or a dict.  Python dicts are objects: the cache *)
(* and the caller hold the same dict, so objetos maps the name of a dict   *)
(* (the key whose body built it) to its content, and cache maps a key to   *)
(* None (<<>>) or to the name of a dict (<<name>>).  One law; the keys     *)
(* never exceed maxsize, so nothing is evicted.                            *)
(***************************************************************************)
BoeIdArticulo == "BOE-A-1978-31229"

NumerosArticulo == {"117", "117.3", "24", "24.2"}

\* '.' in numero_articulo (no input has a ')').
EsSubapartado(numero_articulo) == numero_articulo \in {"117.3", "24.2"}

\* numero_articulo.split('.')[0].split(')')[0]
articulo_base(numero_articulo) ==
    CASE numero_articulo = "117.3" -> "117"
      [] numero_articulo = "24.2" -> "24"
      [] OTHER -> numero_articulo

\* _extraer_articulo_bloque: the dict built from the block downloaded.  The
\* block is the base article's (num_base in the patterns of both
\* strategies); 'numero' is _normalizar_numero_articulo(numero_articulo),
\* which keeps "117" and "117.3" as they are.
extraer_articulo_bloque(numero_articulo, boe_id) ==
    [numero |-> numero_articulo,
     titulo |-> articulo_base(numero_articulo),
     boe_id |-> boe_id]

\* What a key of the cache gives: <<>> for None, else the dict's content.
Cacheado(f, numero_articulo) ==
    IF f.cache[numero_articulo] = <<>> THEN <<>>
    ELSE << f.objetos[f.cache[numero_articulo][1]] >>

\* The cache after the body of a key returned None, or a new dict.
guarda_None(f, numero_articulo) ==
    [f EXCEPT !.cache = (numero_articulo :> <<>>) @@ f.cache, !.retorno = <<>>]

guarda_articulo(f, numero_articulo) ==
    LET articulo == extraer_articulo_bloque(numero_articulo, BoeIdArticulo)
    IN  [cache |-> (numero_articulo :> <<numero_articulo>>) @@ f.cache,
         objetos |-> (numero_articulo :> articulo) @@ f.objetos,
         retorno |-> <<articulo>>]

\* articulo['es_subapartado'] = True; articulo['numero_subapartado'] = ...
\* on the dict the call for the base article returned.
marca_subapartado(articulo, numero_articulo) ==
    [es_subapartado |-> TRUE, numero_subapartado |-> numero_articulo] @@
        [k \in DOMAIN articulo \ {"es_subapartado", "numero_subapartado"} |-> articulo[k]]

\* obtener_articulo(boe_id, numero_articulo).  A hit returns the cached
\* object.  On a miss the body runs: strategies 1 and 2 (the direct
\* download and the index) find the article or not (encontrado), as the BOE
\* answers; for a subpoint left unfound strategy 3 calls
\* self.obtener_articulo for the base article, through the cache (a hit, or
\* a miss whose strategies find it or not: encontrado_base), marks the dict
\* it gets and returns it.  An exception returns None.
BOEArticleFetcher_obtener_articulo(numero_articulo, encontrado, encontrado_base) ==
    /\ fetcher' =
         IF numero_articulo \in DOMAIN fetcher.cache
         THEN [fetcher EXCEPT !.retorno = Cacheado(fetcher, numero_articulo)]
         ELSE IF encontrado THEN guarda_articulo(fetcher, numero_articulo)
         ELSE IF EsSubapartado(numero_articulo)
         THEN LET base == articulo_base(numero_articulo)
                  f1 == IF base \in DOMAIN fetcher.cache THEN fetcher
                        ELSE IF encontrado_base THEN guarda_articulo(fetcher, base)
                        ELSE guarda_None(fetcher, base)
                  articulo == f1.cache[base]
              IN  IF articulo # <<>>
                  THEN LET marcado ==
                               marca_subapartado(f1.objetos[articulo[1]], numero_articulo)
                       IN  [cache |-> (numero_articulo :> articulo) @@ f1.cache,
                            objetos |-> [f1.objetos EXCEPT ![articulo[1]] = marcado],
                            retorno |-> <<marcado>>]
                  ELSE guarda_None(f1, numero_articulo)
         ELSE guarda_None(fetcher, numero_articulo)
    /\ UNCHANGED <<jobs, running_tasks, tasks, hilo, cola, reloj, next_id, conv, pipe, registro, inferencia, eurlex, busqueda>>

NextArticulo ==
    \E numero_articulo \in NumerosArticulo, encontrado \in BOOLEAN,
       encontrado_base \in BOOLEAN :
        BOEArticleFetcher_obtener_articulo(numero_articulo, encontrado, encontrado_base)

SpecArticulo == Init /\ [][NextArticulo]_vars

(***************************************************************************)
(* Properties of the job manager.                                          *)
(***************************************************************************)
Permitidas ==
    { <<PENDING, RUNNING>>, <<RUNNING, COMPLETED>>, <<RUNNING, FAILED>>,
      <<RUNNING, CANCELLED>>, <<PENDING, CANCELLED>> }

Running == {j \in DOMAIN jobs : jobs[j].status = RUNNING}

\* C1: a job's status changes only pending -> running, running ->
\* completed, failed or cancelled, and pending -> cancelled; a job is
\* created pending, and a job in a terminal status keeps it for as long as
\* it is in the table.
C1_Transiciones ==
    [][\A j \in JobIds :
         /\ (j \in DOMAIN jobs /\ j \in DOMAIN jobs') =>
               \/ jobs'[j].status = jobs[j].status
               \/ <<jobs[j].status, jobs'[j].status>> \in Permitidas
         /\ (j \notin DOMAIN jobs /\ j \in DOMAIN jobs') =>
               jobs'[j].status = PENDING]_vars

\* A job cancelled while its thread was running, whose thread has since
\* run to its end with every report delivered: the job is still cancelled.
C1_Witness ==
    /\ 1 \in DOMAIN jobs
    /\ jobs[1].status = CANCELLED
    /\ tasks[1] = "cancelled"
    /\ hilo[1].estado = "returned"
    /\ cola[1] = <<>>

\* C2: a job that was started is in a terminal status once
\* JOB_TIMEOUT_SECONDS have passed since its start, i.e. no job is still
\* running after more than JOB_TIMEOUT_SECONDS.
C2_TerminaEnPlazo ==
    \A j \in DOMAIN jobs : jobs[j].status = RUNNING => reloj[j] <= JOB_TIMEOUT_SECONDS

\* C3: once a job is cancelled its pipeline thread starts no later stage
\* (and so makes no further call to the BOE).
C3_SinEtapasTrasCancelar ==
    [][\A j \in JobIds :
         (j \in DOMAIN jobs /\ jobs[j].status = CANCELLED) =>
             hilo'[j].etapa = hilo[j].etapa]_vars

\* C4: once a job is cancelled, its resultado, progress, mensaje and
\* fase_actual are never written again.
C4_SinEscriturasTrasCancelar ==
    [][\A j \in JobIds :
         (j \in DOMAIN jobs /\ jobs[j].status = CANCELLED /\ j \in DOMAIN jobs') =>
             /\ jobs'[j].resultado = jobs[j].resultado
             /\ jobs'[j].progress = jobs[j].progress
             /\ jobs'[j].mensaje = jobs[j].mensaje
             /\ jobs'[j].fase_actual = jobs[j].fase_actual]_vars

\* C5: the number of jobs in status running never exceeds
\* MAX_CONCURRENT_JOBS.
C5_LimiteConcurrencia ==
    Cardinality(Running) <= MAX_CONCURRENT_JOBS

(***************************************************************************)
(* Properties of the convergence engine.                                   *)
(***************************************************************************)
ConvActiva == conv.estado \in {"rondas", "fin"}

\* What an agent's result contributes to the round when the agent did not
\* fail.
Sobrevive(resultado) ==
    IF resultado.estado = "ok" THEN resultado.referencias ELSE <<>>

\* C6: a convergence run executes at most max_rondas rounds, and when it
\* ends after fewer rounds the last round added nothing to the accumulated
\* list.
C6_RondasAcotadas ==
    ConvActiva =>
        /\ Len(conv.historial_rondas) <= conv.max_rondas
        /\ (conv.estado = "fin" /\ Len(conv.historial_rondas) < conv.max_rondas) =>
               conv.referencias_totales = conv.ultima.antes

\* A run that ended after two of its three rounds, the first of which
\* found something.
C6_Witness ==
    /\ conv.estado = "fin"
    /\ conv.max_rondas = 3
    /\ Len(conv.historial_rondas) = 2
    /\ conv.referencias_totales # <<>>

\* C7: the failure of an extractor agent never aborts the run, and the
\* round in which it happens completes with the outputs of the other
\* agents: their lists, in the order A, B, C, are what is deduplicated, and
\* every reference that survives the deduplication is in the accumulated
\* list or a duplicate of one that is.
C7_FalloDeUnAgente ==
    /\ conv.estado # "abortado"
    /\ (ConvActiva /\ \E g \in Agentes : conv.ultima.resultados[g].estado = "error") =>
          /\ Len(conv.historial_rondas) >= 1
          /\ conv.ultima.referencias_ronda =
                 Sobrevive(conv.ultima.resultados["a"]) \o
                 Sobrevive(conv.ultima.resultados["b"]) \o
                 Sobrevive(conv.ultima.resultados["c"])
          /\ \A k \in DOMAIN conv.ultima.referencias_unicas :
                 es_duplicado(conv.ultima.referencias_unicas[k], conv.referencias_totales)

\* A round in which agent B failed and what agent A found was added.
C7_Witness ==
    /\ ConvActiva
    /\ conv.ultima.resultados["b"].estado = "error"
    /\ conv.ultima.resultados["a"].referencias # <<>>
    /\ Len(conv.referencias_totales) > Len(conv.ultima.antes)

(***************************************************************************)
(* Properties of the pipeline.                                             *)
(***************************************************************************)
PipeActivo == pipe.etapa # "idle"

Textos(referencias) == {referencias[k].texto_completo : k \in DOMAIN referencias}

BienFormadas(referencias) == \A k \in DOMAIN referencias : ~Raises(referencias[k])

\* C8: when the convergence yields no reference, the pipeline (here with
\* its context stage on, as by default) does not raise: it goes on to its
\* final report.
C8_SinReferencias ==
    (PipeActivo /\ pipe.use_context_agent
       /\ pipe.resultado_convergencia.referencias = <<>>) =>
        pipe.etapa # "error"

\* C9: with use_context_agent off and a non-empty list of well-formed
\* references from the convergence, the pipeline does not raise, and what
\* the title resolver is given is the convergence's list unchanged.
C9_SinAgenteDeContexto ==
    (PipeActivo /\ ~pipe.use_context_agent
       /\ pipe.resultado_convergencia.referencias # <<>>
       /\ BienFormadas(pipe.resultado_convergencia.referencias)) =>
        /\ pipe.etapa # "error"
        /\ pipe.etapa \notin {"convergencia", "contexto"} =>
               pipe.entrada_titulos = pipe.resultado_convergencia.referencias

\* C10: the normalization stage does not fail on a reference, and once it
\* is over every reference it was given is in its output; likewise for the
\* validation stage.
C10_AislamientoPorReferencia ==
    PipeActivo =>
        /\ pipe.error # "AttributeError"
        /\ pipe.etapa \in {"normalizadas", "validadas", "informe"} =>
               Textos(pipe.entrada_normalizacion) \subseteq
                   Textos(pipe.referencias_normalizadas)
        /\ pipe.etapa \in {"validadas", "informe"} =>
               Textos(pipe.referencias_normalizadas) \subseteq
                   Textos(pipe.salida_validacion)

\* The position of a reference, known by its text, in a list.
Posicion(referencias, texto_completo) ==
    CHOOSE k \in DOMAIN referencias : referencias[k].texto_completo = texto_completo

\* C11: the references of the final report are in the order in which the
\* convergence extracted them: any two of them stand in the report as they
\* stood in the convergence's list.
C11_OrdenDeExtraccion ==
    pipe.etapa \in {"validadas", "informe"} =>
        \A i, j \in DOMAIN pipe.referencias_validadas :
            i < j =>
                Posicion(pipe.resultado_convergencia.referencias,
                         pipe.referencias_validadas[i].texto_completo)
                  < Posicion(pipe.resultado_convergencia.referencias,
                             pipe.referencias_validadas[j].texto_completo)

\* The reference as the convergence extracted it, known by its text.
Extraida(texto_completo) ==
    pipe.resultado_convergencia.referencias[
        Posicion(pipe.resultado_convergencia.referencias, texto_completo)]

\* The validator's mark on a reference whose article it found absent from
\* the official text.
Alucinada(referencia) == referencia.articulo_existe_boe = "False"

\* C12: every reference of the final report has at least the confidence it
\* was extracted with, unless it is marked hallucinated, and then its
\* confidence is exactly 0.
C12_ConfianzaNoBaja ==
    pipe.etapa \in {"validadas", "informe"} =>
        \A k \in DOMAIN pipe.referencias_validadas :
            LET referencia == pipe.referencias_validadas[k]
            IN  IF Alucinada(referencia) THEN referencia.confianza = 0
                ELSE referencia.confianza
                       >= Extraida(referencia.texto_completo).confianza

\* C13: no reference of the final report that is given as validated and
\* carries an article number cites an article that its norm's official
\* index does not have, however the article check ended.
C13_ArticuloValidadoExiste ==
    pipe.etapa \in {"validadas", "informe"} =>
        \A k \in DOMAIN pipe.referencias_validadas :
            LET referencia == pipe.referencias_validadas[k]
            IN  (referencia.validada /\ referencia.articulo # None) =>
                    NumeroNorm(referencia.articulo) \in Indice(referencia.boe_id)

\* The reference is among those the exporter writes.
Exportada(referencia) ==
    \E k \in DOMAIN pipe.referencias_exportadas :
        pipe.referencias_exportadas[k].texto_completo = referencia.texto_completo

\* C14: a reference whose article the validator found absent from the
\* official norm is demoted (not validated, confidence 0) and is not among
\* the exported references.
C14_ArticuloAusenteDegradada ==
    (pipe.etapa = "informe" /\ pipe.exportar) =>
        \A k \in DOMAIN pipe.referencias_validadas :
            LET referencia == pipe.referencias_validadas[k]
            IN  Alucinada(referencia) =>
                    /\ ~referencia.validada
                    /\ referencia.confianza = 0
                    /\ ~Exportada(referencia)

\* A European reference for which a CELEX was synthesized.
EuropeaConCelex(referencia) ==
    es_legislacion_europea(referencia.texto_completo) /\ referencia.celex # None

\* C16: a reference of the final report is exported if and only if it is a
\* European reference with a synthesized CELEX or it has the BOE-ID the
\* validator set.
C16_ExportadaSii ==
    (pipe.etapa = "informe" /\ pipe.exportar) =>
        \A k \in DOMAIN pipe.referencias_validadas :
            LET referencia == pipe.referencias_validadas[k]
            IN  Exportada(referencia) <=>
                    (EuropeaConCelex(referencia) \/ referencia.boe_id # None)

\* The registry identifier of an exported reference: its BOE-ID, or its
\* CELEX.
RegistryId(referencia) ==
    IF referencia.boe_id # None THEN referencia.boe_id
    ELSE IF referencia.eurlex_celex # None THEN referencia.eurlex_celex
    ELSE referencia.celex

\* C15: the exported list has no two references with the same registry
\* identifier (two that cite the same article of it, or both the norm as a
\* whole), and no two references without one that name the same law and
\* article.
C15_SinDuplicados ==
    (pipe.etapa = "informe" /\ pipe.exportar) =>
        \A i, j \in DOMAIN pipe.referencias_exportadas :
            LET a == pipe.referencias_exportadas[i]
                b == pipe.referencias_exportadas[j]
            IN  i < j =>
                    /\ ~(/\ RegistryId(a) # None
                         /\ RegistryId(a) = RegistryId(b)
                         /\ a.articulo = b.articulo)
                    /\ ~(/\ RegistryId(a) = None
                         /\ RegistryId(b) = None
                         /\ a.ley # ""
                         /\ LowerStrip(a.ley) = LowerStrip(b.ley)
                         /\ a.articulo = b.articulo)

(***************************************************************************)
(* Properties of the registry clients.                                     *)
(***************************************************************************)
\* C17: no cache holds the answer of a failed lookup (network error,
\* timeout, status other than 200), so that a later lookup of the same key
\* asks the registry again.
C17_FallosNoCacheados ==
    \A f \in FuncionesLru : \A key \in DOMAIN registro.lru[f] :
        \A respuesta \in Respuestas \ {"200"} :
            registro.lru[f][key] # Retorno(f, respuesta)

\* The threads that are asking a registry for a key.
Consultando(servicio, key) ==
    {w \in Workers : registro.workers[w] = Llamando(servicio, key)}

\* C18: a registry is asked at most once for a key, also when several
\* references that need the key are validated at the same time: no two
\* threads are asking for the same key, and none asks for a key that is
\* cached.
C18_UnaConsultaPorClave ==
    /\ \A key \in ClavesBusqueda :
          /\ Cardinality(Consultando("buscar_ley", key)) <= 1
          /\ key \in DOMAIN registro.cache => Consultando("buscar_ley", key) = {}
    /\ \A key \in ClavesDescarga :
          /\ Cardinality(Consultando("descargar_ley", key)) <= 1
          /\ key \in DOMAIN registro.boe_html => Consultando("descargar_ley", key) = {}

\* C19: a cache file is written only by a thread that holds the file lock
\* of the key it writes.
C19_EscrituraConLock ==
    [][(registro'.cache_file # registro.cache_file
          \/ registro'.boe_html # registro.boe_html) =>
         \E w \in Workers :
             /\ registro.workers[w].pc \in {"buscar_ley", "descargar_ley"}
             /\ registro'.workers[w] = Idle
             /\ registro.workers[w].key \in registro.locks[w]]_vars

(***************************************************************************)
(* Properties of the inference agent.                                      *)
(***************************************************************************)
\* C20: an inferred reference is returned only after it was checked
\* against the real index of its norm: the index was obtained, every
\* article the reference lists is in it, and at least half of the proposed
\* articles are.
C20_InferidaContrastada ==
    inferencia.estado = "inferido" =>
        \A k \in DOMAIN inferencia.referencias_inferidas :
            LET ref == inferencia.referencias_inferidas[k]
                propuestos == inferencia.mapeo.articulos
                presentes == {i \in DOMAIN propuestos :
                                 propuestos[i] \in Indice(ref.boe_id)}
            IN  /\ inferencia.indice # None
                /\ \A i \in DOMAIN ref.articulos :
                       ref.articulos[i] \in Indice(ref.boe_id)
                /\ 2 * Cardinality(presentes) >= Len(propuestos)

\* C21: no reference the inference agent returns holds a (BOE-ID, article)
\* pair that one of the validated references passed to it already has.
C21_InferidaSinRepetir ==
    inferencia.estado = "inferido" =>
        \A k \in DOMAIN inferencia.referencias_inferidas :
            LET ref == inferencia.referencias_inferidas[k]
            IN  \A i \in DOMAIN ref.articulos :
                    \A e \in DOMAIN inferencia.referencias_existentes :
                        ~ /\ inferencia.referencias_existentes[e].boe_id = ref.boe_id
                          /\ inferencia.referencias_existentes[e].articulo = ref.articulos[i]

\* The act a CELEX in the format 3 YYYY T NNNN stands for: its type, year
\* and number, or nothing when the identifier is not in the format.
Digitos == {ToString(d) : d \in 0..9}

RECURSIVE Valor(_)
Valor(digitos) ==
    IF digitos = <<>> THEN 0
    ELSE 10 * Valor(SubSeq(digitos, 1, Len(digitos) - 1))
         + (CHOOSE d \in 0..9 : ToString(d) = digitos[Len(digitos)])

ParseCelex(celex) ==
    IF /\ Len(celex) = 10
       /\ celex[1] = "3"
       /\ \A i \in (2..5) \cup (7..10) : celex[i] \in Digitos
       /\ celex[6] \in TiposActo
    THEN << <<celex[6], Valor(SubSeq(celex, 2, 5)), Valor(SubSeq(celex, 7, 10))>> >>
    ELSE <<>>

\* C22: the CELEX synthesized for an act (regulation, directive or
\* decision) of a year and a number, parsed back by its format, gives the
\* act's type, year and number.
C22_CelexIdaYVuelta ==
    eurlex.estado = "extraido" =>
        ParseCelex(eurlex.celex)
            = << <<eurlex.cita.tipo, eurlex.cita.anio, eurlex.cita.numero>> >>

\* C23: from its start until it reaches a terminal status, the progress
\* stored for a job never decreases.
C23_ProgresoNoDecrece ==
    [][\A j \in JobIds :
         (j \in DOMAIN jobs /\ j \in DOMAIN jobs' /\ jobs[j].status = RUNNING) =>
             jobs'[j].progress >= jobs[j].progress]_vars

\* A running job whose thread is past the export stage, with the reports up
\* to 95 delivered.
C23_Witness ==
    /\ 1 \in DOMAIN jobs
    /\ jobs[1].status = RUNNING
    /\ jobs[1].progress = 95
    /\ hilo[1].etapa >= 10

\* C24: a reference's article is marked as non-existent only when the
\* official norm does not have it; a download of the norm that fails (a
\* timeout, a network error) never marks it so.
C24_FalloNoEsAusencia ==
    pipe.etapa \in {"validadas", "informe"} =>
        \A k \in DOMAIN pipe.salida_validacion :
            LET referencia == pipe.salida_validacion[k]
            IN  referencia.articulo_existe_boe = "False" =>
                    NumeroNorm(referencia.articulo) \notin Indice(referencia.boe_id)

\* The article a reference cites ('articulo' in the extractor's dict).
ArticuloDe(ref) ==
    CASE Texto(ref) = "art. 24 ce" -> "24"
      [] Texto(ref) = "art. 103 ce" -> "103"
      [] Texto(ref) = "articulo 14" -> "14"
      [] OTHER -> None

\* C25: a reference that came through the round's semantic deduplication
\* and names the same law as another extracted reference, but another
\* article, is in the accumulated list.
C25_ArticulosDistintos ==
    ConvActiva =>
        \A k \in DOMAIN conv.ultima.referencias_unicas :
            LET ref == conv.ultima.referencias_unicas[k]
                extraidas == conv.ultima.antes \o conv.ultima.referencias_unicas
            IN  (\E i \in DOMAIN extraidas :
                     /\ LeyDe(ref) # ""
                     /\ LeyDe(extraidas[i]) = LeyDe(ref)
                     /\ ArticuloDe(ref) # None
                     /\ ArticuloDe(extraidas[i]) # None
                     /\ ArticuloDe(extraidas[i]) # ArticuloDe(ref))
                => \E i \in DOMAIN conv.referencias_totales :
                       Texto(conv.referencias_totales[i]) = Texto(ref)

\* C26: the resolution of a BOE-ID stops at the first lookup that gives
\* one, and looks at the official title last: a lookup that takes its
\* type and number from the title is made only after the map of known
\* (type, number) was looked up with the reference's own, and no lookup
\* with the reference's own follows it.
C26_CascadaEnOrden ==
    busqueda.pc # "idle" =>
        \A i \in DOMAIN busqueda.consultas :
            /\ busqueda.consultas[i].exito => i = Len(busqueda.consultas)
            /\ busqueda.consultas[i].desde = "titulo" =>
                  /\ \A j \in DOMAIN busqueda.consultas :
                         j > i => busqueda.consultas[j].desde = "titulo"
                  /\ extraer_tipo_numero(busqueda.ley_info.referencia) # <<>> =>
                         \E j \in 1..(i - 1) :
                             busqueda.consultas[j]
                                 = Consulta("mapeo_conocido", "referencia", FALSE)

\* C27: the runner of a job is launched at most once, and only by a start
\* of a pending job: a start of an unknown job or of a job that is not
\* pending launches no task and changes no field of the job.
C27_UnSoloLanzamiento ==
    [][\A j \in JobIds :
         /\ (tasks'[j] = "scheduled" /\ tasks[j] # "scheduled") =>
               /\ j \in DOMAIN jobs
               /\ jobs[j].status = PENDING
               /\ tasks[j] = "none"
         /\ (j \in DOMAIN jobs /\ j \in DOMAIN jobs' /\ jobs[j].status # RUNNING
                /\ jobs'[j].status = RUNNING) =>
               /\ jobs[j].status = PENDING
               /\ tasks[j] = "none"
               /\ tasks'[j] = "scheduled"]_vars

\* Job 1 ran to completion and job 2 was cancelled while pending, so that
\* the start its request had queued found it cancelled: no task for it.
C27_Witness ==
    /\ {1, 2} \subseteq DOMAIN jobs
    /\ jobs[1].status = COMPLETED
    /\ tasks[1] = "finished"
    /\ jobs[2].status = CANCELLED
    /\ tasks[2] = "none"

\* C28: cleanup_old_jobs removes only jobs in a terminal status; a pending
\* or running job stays in the table whatever its age.
C28_LimpiezaSoloTerminales ==
    [][\A j \in JobIds :
         (j \in DOMAIN jobs /\ j \notin DOMAIN jobs') =>
             jobs[j].status \in {COMPLETED, FAILED, CANCELLED}]_vars

\* A cleanup has removed job 2 and left job 1, which is older and still
\* running.
C28_Witness ==
    /\ next_id > 2
    /\ 1 \in DOMAIN jobs
    /\ jobs[1].status = RUNNING
    /\ 2 \notin DOMAIN jobs
\* C29: in the context resolver, the law the LLM identifies for the context
\* it was shown as "Referencia k" is the law of the reference that context
\* was extracted for, also when references of the batch without a position
\* in the text were left out of the prompt.
C29_LeyAlContextoEnviado ==
    (pipe.etapa # "idle" /\ pipe.llamada_contexto # <<>>
        /\ pipe.llamada_contexto[1].respuesta.ok) =>
      LET contextos == pipe.llamada_contexto[1].contextos
          resueltas == pipe.resultado_contexto.referencias_resueltas
      IN  \A r \in pipe.llamada_contexto[1].respuesta.resoluciones :
            (r.index \in DOMAIN contextos /\ r.ley_identificada # "") =>
              \E j \in DOMAIN resueltas :
                /\ resueltas[j].texto_completo = contextos[r.index].texto_completo
                /\ resueltas[j].ley = r.ley_identificada

\* C30: fetching a subpoint of an article ("117.3") does not change what a
\* later fetch of the base article ("117") returns: no call of
\* obtener_articulo alters the record cached under a key.
C30_RegistroCacheadoIntacto ==
    [][\A k \in DOMAIN fetcher.cache : Cacheado(fetcher', k) = Cacheado(fetcher, k)]_vars

====
